---- MODULE Spec2Model ----
(***************************************************************************)
(* Block-Vote: the on-chain Voting Ledger (VotingSystem.sol), the          *)
(* one-time-passcode store (models/OTP.js), the credential store with its  *)
(* wallet-binding routes, and the voting page of the client.               *)
(*                                                                         *)
(* Each subsystem has its own next-state relation and specification; the   *)
(* variables of the other subsystems stay at their initial values.         *)
(***************************************************************************)
EXTENDS Integers, Sequences, FiniteSets, TLC

(***************************************************************************)
(* Bounds of the model.                                                    *)
(***************************************************************************)
\* candidates.push is unbounded in the contract; the model stops adding here.
MaxCandidates == 2

\* Wallet addresses that send transactions (20-byte values on chain, written
\* here as short lowercase hex strings standing for 40 hex digits).
Addresses == {"0xabc1", "0xabc2", "0xabc3"}
\* The address that deploys the contract (msg.sender of the constructor).
Deployer == "0xabc1"
\* Candidate names offered to addCandidate; "" is the empty string.
Names == {"", "Alice", "Bob"}
\* candidateId arguments offered to castVote, one past the largest index included.
CandidateIds == 0..MaxCandidates

\* The clock (in minutes) stops here, and advances by this much at a time.
MaxTime == 15
TickMinutes == 5
\* parseInt(process.env.OTP_EXPIRY_MINUTES) || 10
OTP_EXPIRY_MINUTES == 10
\* Rows the otp_codes table holds at most; createOTP waits for a sweep beyond it.
MaxOtps == 2

\* Email strings presented by callers; "U@x.com" and "u@x.com" differ in case only.
Emails == {"u@x.com", "U@x.com", "v@x.com"}
\* The email strings presented to the passcode gate when it is checked alone.
GateEmails == {"u@x.com", "U@x.com"}

\* The email strings presented to the API when the store is checked.
StoreEmails == {"u@x.com", "v@x.com"}

\* The codes generateCode returns when the store is checked.
StoreCodes == {"000001"}

\* Rows the users table holds at most.
MaxUsers == 2
\* Wallet address strings presented by callers: "0xABC1" is "0xabc1" with all
\* hex digits in upper case, "0xaBc1" is "0xabc1" in a mixed case that is not
\* its checksum spelling, "0x12" is not 40 hex digits long.
WalletStrings == {"0xabc1", "0xABC1", "0xaBc1", "0xabc2", "0x12"}
\* A column holding NULL, and a request body field that is absent.
NULL == "<null>"
\* lastLogin of an account that has not logged in (the column is null).
Never == -1
Undefined == "<undefined>"
\* Values of the type column used here (the ENUM also has 'password_reset').
OtpTypes == {"registration", "login"}
\* DataTypes.ENUM('registration', 'login', 'password_reset')
OtpTypeEnum == {"registration", "login", "password_reset"}
\* The password every account signs up with, and the passwords presented at
\* login or chosen at a reset.
SignupPassword == "secret1"
Passwords == {"secret1", "secret2"}
\* Strings generateCode draws from (10^OTP_LENGTH of them in the program).
Codes == {"000001", "000002"}

VARIABLES
  \* ---- VotingSystem.sol storage
  owner,          \* address public owner
  voters,         \* mapping(address => Voter)
  candidates,     \* Candidate[] (1-based here, 0-based in Solidity)
  votingOpen,     \* bool public votingOpen
  \* ---- observation of the ledger's transactions
  lastTx,         \* the last transaction sent and how it ended
  voteSuccesses,  \* per address, the number of castVote calls that succeeded
  \* ---- models/OTP.js: the otp_codes table and the server's clock
  otps,           \* rows of otp_codes in insertion (id) order
  now,            \* Date.now(), in minutes
  \* ---- observation of the passcode gate's calls
  lastOtp,        \* the last OTP call, its arguments and what it returned
  issued,         \* per (email, type): what createOTP returned, newest and older
  procs,          \* OTP calls of concurrent requests, each between two awaits
  \* ---- the Credential Store and the sessions of the API
  users,          \* rows of the users table in insertion (id) order
  tokens,         \* ids of the users for whom generateTokens has signed tokens
  lastReq,        \* the last HTTP request: route and response status
  loginLog,       \* observation: the passcodes POST /login issued (for whom, with
                  \* which password presented against which stored) and the
                  \* accounts POST /verify-login signed tokens for
  lastMail,       \* what became of the last request's passcode mail: "sent",
                  \* "failed", or "none" when the request sent no mail
  lastBody,       \* the JSON body of the last response of the account routes
  \* ---- one browser: AuthContext, web3Service and the VotingPage
  sessionUser,    \* id of the logged-in user, 0 when logged out
  account,        \* web3Service.account, "" when no wallet is connected
  contract,       \* web3Service.contract is loaded
  page,           \* the React state of VotingPage
  pending,        \* effects and timers that are scheduled and have not run
  lastSent,       \* the last transaction web3Service submitted to the ledger
  freshMatch,     \* a verify of (sessionUser, account) returned isMatching=true
                  \* and neither the account nor the bound address changed since
  validation,     \* the state of useWalletValidation and what validateWallet
                  \* returned last
  api             \* APIService: the request a caller awaits, with the requests
                  \* its interceptor has in flight on its behalf

ledgerVars == <<owner, voters, candidates, votingOpen, lastTx, voteSuccesses>>
otpVars == <<otps, now, lastOtp, issued, procs>>
storeVars == <<users, tokens, lastReq>>
mailVars == <<lastMail, lastBody>>
authVars == <<loginLog, mailVars>>
clientVars == <<sessionUser, account, contract, page, pending, lastSent, freshMatch,
                validation, api>>
vars == <<ledgerVars, otpVars, storeVars, clientVars, authVars>>

(***************************************************************************)
(* VotingSystem.sol                                                        *)
(***************************************************************************)
\* struct Voter, zero-valued as a mapping entry never written.
Voter == [isRegistered |-> FALSE, hasVoted |-> FALSE, votedCandidateId |-> 0]

\* struct Candidate as pushed by addCandidate.
Candidate_oneVote(name) == [name |-> name, voteCount |-> 1]
Candidate(name) == [name |-> name, voteCount |-> 0]

\* A transaction as observed from outside: the call, its sender, its arguments
\* and "ok" or the revert reason.
Tx(op, sender, addr, name, id, status) ==
  [op |-> op, sender |-> sender, addr |-> addr, name |-> name, id |-> id,
   status |-> status]

InitLedger ==
  /\ owner = Deployer
  /\ voters = [a \in Addresses |-> Voter]
  /\ candidates = <<>>
  /\ votingOpen = FALSE
  /\ lastTx = Tx("constructor", Deployer, "", "", 0, "ok")
  /\ voteSuccesses = [a \in Addresses |-> 0]

onlyOwner_noCheck(sender) == TRUE
\* modifier onlyOwner
onlyOwner(sender) == sender = owner

onlyRegistered_noCheck(sender) == TRUE
\* modifier onlyRegistered
onlyRegistered(sender) == voters[sender].isRegistered

\* modifier whenVotingOpen
whenVotingOpen == votingOpen

\* The require statements of each function in the order they run; "ok" when all pass.
registerVoterStatus_whileClosed(sender, voter) ==
  IF ~onlyOwner(sender) THEN "Only owner"
  ELSE IF votingOpen THEN "Voting is open"
  ELSE IF voters[voter].isRegistered THEN "Already registered"
  ELSE "ok"
registerVoterStatus(sender, voter) ==
  IF ~onlyOwner(sender) THEN "Only owner"
  ELSE IF voters[voter].isRegistered THEN "Already registered"
  ELSE "ok"

addCandidateStatus(sender, name) ==
  IF ~onlyOwner(sender) THEN "Only owner"
  ELSE IF ~(name # "") THEN "Name required"
  ELSE "ok"

openVotingStatus_noCandidateCheck(sender) ==
  IF ~onlyOwner(sender) THEN "Only owner"
  ELSE IF votingOpen THEN "Already open"
  ELSE "ok"
openVotingStatus(sender) ==
  IF ~onlyOwner(sender) THEN "Only owner"
  ELSE IF votingOpen THEN "Already open"
  ELSE IF ~(Len(candidates) > 0) THEN "No candidates"
  ELSE "ok"

closeVotingStatus_noOpenCheck(sender) ==
  IF ~onlyOwner(sender) THEN "Only owner"
  ELSE "ok"
closeVotingStatus(sender) ==
  IF ~onlyOwner(sender) THEN "Only owner"
  ELSE IF ~votingOpen THEN "Not open"
  ELSE "ok"

registerSelfStatus_noCheck(sender) == "ok"
registerSelfStatus(sender) ==
  IF voters[sender].isRegistered THEN "Already registered"
  ELSE "ok"

castVoteStatus_noVotedCheck(sender, candidateId) ==
  IF ~onlyRegistered(sender) THEN "Not registered"
  ELSE IF ~whenVotingOpen THEN "Voting is closed"
  ELSE IF ~(candidateId < Len(candidates)) THEN "Invalid candidate"
  ELSE "ok"
castVoteStatus(sender, candidateId) ==
  IF ~onlyRegistered(sender) THEN "Not registered"
  ELSE IF ~whenVotingOpen THEN "Voting is closed"
  ELSE IF ~(candidateId < Len(candidates)) THEN "Invalid candidate"
  ELSE IF voters[sender].hasVoted THEN "Already voted"
  ELSE "ok"

Commit_partial(status, after, before) == after
\* A call whose require statements all pass commits its writes; a failed
\* require reverts the transaction and every write of it.
Commit(status, after, before) == IF status = "ok" THEN after ELSE before

CountVote_skip(cs, candidateId) == cs
\* candidates[_candidateId].voteCount += 1
CountVote(cs, candidateId) ==
  [cs EXCEPT ![candidateId + 1].voteCount = @ + 1]

\* function registerVoter(address _voter) external onlyOwner
registerVoter(sender, voter) ==
  LET status == registerVoterStatus(sender, voter) IN
  /\ lastTx' = Tx("registerVoter", sender, voter, "", 0, status)
  /\ voters' = Commit(status, [voters EXCEPT ![voter].isRegistered = TRUE], voters)
  /\ UNCHANGED <<owner, candidates, votingOpen, voteSuccesses>>

\* function addCandidate(string memory _name) external onlyOwner
addCandidate(sender, name) ==
  LET status == addCandidateStatus(sender, name) IN
  /\ Len(candidates) < MaxCandidates
  /\ lastTx' = Tx("addCandidate", sender, "", name, 0, status)
  /\ candidates' = Commit(status, Append(candidates, Candidate(name)), candidates)
  /\ UNCHANGED <<owner, voters, votingOpen, voteSuccesses>>

\* function openVoting() external onlyOwner
openVoting(sender) ==
  LET status == openVotingStatus(sender) IN
  /\ lastTx' = Tx("openVoting", sender, "", "", 0, status)
  /\ votingOpen' = Commit(status, TRUE, votingOpen)
  /\ UNCHANGED <<owner, voters, candidates, voteSuccesses>>

\* function closeVoting() external onlyOwner
closeVoting(sender) ==
  LET status == closeVotingStatus(sender) IN
  /\ lastTx' = Tx("closeVoting", sender, "", "", 0, status)
  /\ votingOpen' = Commit(status, FALSE, votingOpen)
  /\ UNCHANGED <<owner, voters, candidates, voteSuccesses>>

\* function registerSelf() external
registerSelf(sender) ==
  LET status == registerSelfStatus(sender) IN
  /\ lastTx' = Tx("registerSelf", sender, "", "", 0, status)
  /\ voters' = Commit(status, [voters EXCEPT ![sender].isRegistered = TRUE], voters)
  /\ UNCHANGED <<owner, candidates, votingOpen, voteSuccesses>>

\* function castVote(uint256 _candidateId) external onlyRegistered whenVotingOpen
castVote(sender, candidateId) ==
  LET status == castVoteStatus(sender, candidateId) IN
  /\ lastTx' = Tx("castVote", sender, "", "", candidateId, status)
  /\ voters' = Commit(status,
                       [voters EXCEPT ![sender].hasVoted = TRUE,
                                      ![sender].votedCandidateId = candidateId],
                       voters)
  /\ candidates' = Commit(status, CountVote(candidates, candidateId), candidates)
  /\ voteSuccesses' = IF status = "ok"
                      THEN [voteSuccesses EXCEPT ![sender] = @ + 1]
                      ELSE voteSuccesses
  /\ UNCHANGED <<owner, votingOpen>>

\* function getCandidateCount() external view
getCandidateCount == Len(candidates)

\* function getCandidate(uint256 _candidateId) external view: (name, votes),
\* or the revert reason in status.
getCandidate(candidateId) ==
  IF ~(candidateId < Len(candidates))
  THEN [status |-> "Invalid candidate", name |-> "", votes |-> 0]
  ELSE [status |-> "ok", name |-> candidates[candidateId + 1].name,
        votes |-> candidates[candidateId + 1].voteCount]

getResults_newestFirst ==
  [i \in 1..Len(candidates) |->
     <<candidates[Len(candidates) + 1 - i].name,
       candidates[Len(candidates) + 1 - i].voteCount>>]
\* function getResults() external view: (names, votes) in insertion order
getResults == [i \in 1..Len(candidates) |->
                 <<candidates[i].name, candidates[i].voteCount>>]

(***************************************************************************)
(* models/OTP.js                                                           *)
(***************************************************************************)
\* String.prototype.toLowerCase on the strings of the model.
toLowerCase(str) ==
  CASE str = "U@x.com" -> "u@x.com"
    [] str = "0xABC1" -> "0xabc1"
    [] str = "0xaBc1" -> "0xabc1"
    [] OTHER -> str

\* A row of otp_codes (the id is the row's position in otps).
OtpRow(email, code, type, expiresAt, createdAt) ==
  [email |-> email, code |-> code, type |-> type, expiresAt |-> expiresAt,
   isUsed |-> FALSE, createdAt |-> createdAt]

\* An OTP call as observed by its caller: the arguments and the returned value
\* (valid for verifyOTP, code and expiresAt for createOTP, the count for
\* cleanupExpired).
OtpCall(op, email, code, type, valid, expiresAt, deleted) ==
  [op |-> op, email |-> email, code |-> code, type |-> type, valid |-> valid,
   expiresAt |-> expiresAt, deleted |-> deleted]

\* What a caller knows of the passcodes issued for one (email, type): the
\* newest createOTP result, whether a verify of it has succeeded, and the
\* codes of the createOTP results before it that no verify had accepted when
\* the next one was issued.
NoIssue == [code |-> "", verified |-> FALSE, olderUnused |-> {}]

PairKey(email, type) == <<toLowerCase(email), type>>
Pairs == {PairKey(e, t) : e \in Emails, t \in OtpTypeEnum}

\* The email string the concurrent requests present.
ConcEmails == {"U@x.com"}

\* Requests the server handles at once; each runs one OTP call at a time.
Procs == {1, 2}

\* A call in flight: where it stands (pc), its arguments, the row findOne
\* returned (0 for none) and, once it is done, what it returns.
Call(pc, op, email, code, type, expiresAt, row, valid) ==
  [pc |-> pc, op |-> op, email |-> email, code |-> code, type |-> type,
   expiresAt |-> expiresAt, row |-> row, valid |-> valid]

Idle == Call("idle", "none", "", "", "", 0, 0, FALSE)

InitOTP ==
  /\ otps = <<>>
  /\ now = 0
  /\ lastOtp = OtpCall("none", "", "", "", FALSE, 0, 0)
  /\ issued = [k \in Pairs |-> NoIssue]
  /\ procs = [p \in Procs |-> Idle]

Outstanding_anyType(row, email, type) ==
  /\ row.email = toLowerCase(email)
  /\ row.isUsed = FALSE
  /\ row.expiresAt > now
Outstanding_noExpiry(row, email, type) ==
  /\ row.email = toLowerCase(email)
  /\ row.type = type
  /\ row.isUsed = FALSE
\* where: { email: email.toLowerCase(), type, isUsed: false, expiresAt > new Date() }
Outstanding(row, email, type) ==
  /\ row.email = toLowerCase(email)
  /\ row.type = type
  /\ row.isUsed = FALSE
  /\ row.expiresAt > now

InvalidateExisting_skip(rows, email, type) == rows
\* this.update({ isUsed: true }, { where: ... }) of createOTP
InvalidateExisting(rows, email, type) ==
  [i \in 1..Len(rows) |->
     IF Outstanding(rows[i], email, type)
     THEN [rows[i] EXCEPT !.isUsed = TRUE]
     ELSE rows[i]]

\* OTP.createOTP(email, type); code is what generateCode returned.
createOTP(email, type, code) ==
  LET expiresAt == now + OTP_EXPIRY_MINUTES
      key == PairKey(email, type) IN
  /\ Len(otps) < MaxOtps
  /\ otps' = Append(InvalidateExisting(otps, email, type),
                    OtpRow(toLowerCase(email), code, type, expiresAt, now))
  /\ lastOtp' = OtpCall("createOTP", email, code, type, FALSE, expiresAt, 0)
  /\ issued' = [issued EXCEPT ![key] =
                  [code |-> code, verified |-> FALSE,
                   olderUnused |->
                     IF issued[key].code = "" \/ issued[key].verified
                     THEN issued[key].olderUnused
                     ELSE issued[key].olderUnused \cup {issued[key].code}]]
  /\ UNCHANGED <<now, procs>>

\* The rows findOne may return: those matching the where clause, newest
\* createdAt first (rows with equal createdAt come in an order the database
\* chooses).
FindOneMatches(email, code, type) ==
  LET match == {i \in 1..Len(otps) :
                  Outstanding(otps[i], email, type) /\ otps[i].code = code}
  IN {i \in match : \A j \in match : otps[j].createdAt <= otps[i].createdAt}

MarkUsed_skip(rows, i) == rows
\* otp.update({ isUsed: true })
MarkUsed(rows, i) == [rows EXCEPT ![i].isUsed = TRUE]

\* OTP.verifyOTP(email, code, type)
verifyOTP(email, code, type) ==
  LET found == FindOneMatches(email, code, type)
      key == PairKey(email, type) IN
  /\ IF found = {}
     THEN /\ lastOtp' = OtpCall("verifyOTP", email, code, type, FALSE, 0, 0)
          /\ UNCHANGED <<otps, issued>>
     ELSE \E i \in found :
          /\ otps' = MarkUsed(otps, i)
          /\ lastOtp' = OtpCall("verifyOTP", email, code, type, TRUE, 0, 0)
          /\ issued' = IF issued[key].code = code
                       THEN [issued EXCEPT ![key].verified = TRUE]
                       ELSE issued
  /\ UNCHANGED <<now, procs>>

Expired_orNow(row) == row.expiresAt <= now
\* where: { expiresAt < new Date() }
Expired(row) == row.expiresAt < now

\* OTP.cleanupExpired()
cleanupExpired ==
  LET kept == SelectSeq(otps, LAMBDA row : ~Expired(row)) IN
  /\ otps' = kept
  /\ lastOtp' = OtpCall("cleanupExpired", "", "", "", FALSE, 0,
                        Len(otps) - Len(kept))
  /\ UNCHANGED <<now, issued, procs>>

\* Time passes between calls.
Tick ==
  /\ now + TickMinutes <= MaxTime
  /\ now' = now + TickMinutes
  /\ UNCHANGED <<otps, lastOtp, issued, procs>>


(***************************************************************************)
(* models/OTP.js under concurrent requests: createOTP and verifyOTP are    *)
(* async functions that await two database statements each, with no        *)
(* transaction and no lock, so statements of other requests run between.   *)
(***************************************************************************)
\* createOTP up to its first await: generateCode, expiresAt, then the UPDATE
\* that invalidates the outstanding rows of the pair.
createOTP_update(p, email, type, code) ==
  /\ procs[p].pc = "idle"
  /\ Len(otps) + Cardinality({q \in Procs : procs[q].pc = "create"}) < MaxOtps
  /\ otps' = InvalidateExisting(otps, email, type)
  /\ procs' = [procs EXCEPT ![p] =
       Call("create", "createOTP", email, code, type,
            now + OTP_EXPIRY_MINUTES, 0, FALSE)]
  /\ UNCHANGED <<now, lastOtp, issued>>

\* createOTP after the UPDATE: this.create(...) and the return.
createOTP_create(p) ==
  /\ procs[p].pc = "create"
  /\ Len(otps) < MaxOtps
  /\ otps' = Append(otps, OtpRow(toLowerCase(procs[p].email), procs[p].code,
                                 procs[p].type, procs[p].expiresAt, now))
  /\ procs' = [procs EXCEPT ![p].pc = "done", ![p].row = Len(otps) + 1]
  /\ UNCHANGED <<now, lastOtp, issued>>

\* verifyOTP up to its first await: the findOne; without a row it returns
\* { valid: false }.
verifyOTP_findOne(p, email, code, type) ==
  /\ procs[p].pc = "idle"
  /\ LET found == FindOneMatches(email, code, type) IN
     IF found = {}
     THEN procs' = [procs EXCEPT ![p] =
            Call("done", "verifyOTP", email, code, type, 0, 0, FALSE)]
     ELSE \E i \in found :
          procs' = [procs EXCEPT ![p] =
            Call("update", "verifyOTP", email, code, type, 0, i, FALSE)]
  /\ UNCHANGED <<otps, now, lastOtp, issued>>

\* verifyOTP after the findOne: otp.update({ isUsed: true }) on the instance
\* it holds, whatever the row's isUsed is by now, and return { valid: true }.
verifyOTP_update(p) ==
  /\ procs[p].pc = "update"
  /\ otps' = MarkUsed(otps, procs[p].row)
  /\ procs' = [procs EXCEPT ![p].pc = "done", ![p].valid = TRUE]
  /\ UNCHANGED <<now, lastOtp, issued>>

\* The request that made the call has received its result and ends.
requestEnds(p) ==
  /\ procs[p].pc = "done"
  /\ procs' = [procs EXCEPT ![p] = Idle]
  /\ UNCHANGED <<otps, now, lastOtp, issued>>

(***************************************************************************)
(* The Credential Store: models/User.js with the routes that write the     *)
(* walletAddress column (routes/auth.js, routes/walletRoutes.js,           *)
(* routes/users.js, services/walletService.js).                            *)
(***************************************************************************)
\* A row of users as User.create stores it (the id is the row's position).
UserRow(email, walletAddress) ==
  [email |-> toLowerCase(email),
   walletAddress |-> IF walletAddress = Undefined THEN NULL ELSE walletAddress,
   isVerified |-> FALSE, isActive |-> TRUE, password |-> SignupPassword,
   lastLogin |-> Never]

\* An HTTP exchange as the client sees it.
Req(route, status) == [route |-> route, status |-> status]

\* The exchange of POST /api/wallet/verify: the walletAddress of the request
\* body and the fields of the response's data (needsRegistration is FALSE
\* where the response leaves it undefined).
VerifyReq(status, walletAddress, result) ==
  [route |-> "POST /wallet/verify", status |-> status,
   walletAddress |-> walletAddress, isValid |-> result.isValid,
   isMatching |-> result.isMatching,
   needsRegistration |-> result.needsRegistration]

Verification(valid, matching, needsRegistration) ==
  [isValid |-> valid, isMatching |-> matching,
   needsRegistration |-> needsRegistration]

\* res.json({ success, message, data: { maskedEmail, preview } }); fields the
\* response does not carry are undefined.
Body(success, message, maskedEmail, preview) ==
  [success |-> success, message |-> message, maskedEmail |-> maskedEmail,
   preview |-> preview]

InitStore ==
  /\ users = <<>>
  /\ tokens = {}
  /\ lastReq = Req("none", 0)
  /\ loginLog = [issued |-> {}, tokens |-> {}]
  /\ lastMail = "none"
  /\ lastBody = Body(FALSE, "", Undefined, Undefined)

UserIds == 1..Len(users)

\* JavaScript truthiness of a wallet address value: null, undefined and the
\* empty string are falsy.
Truthy(str) == str \notin {NULL, Undefined, ""}

\* /^0x[a-fA-F0-9]{40}$/ of routes/users.js; express-validator's
\* isEthereumAddress accepts the same strings.
MatchesAddressRegex(str) == str \in {"0xabc1", "0xABC1", "0xaBc1", "0xabc2"}

\* web3.utils.isAddress: 40 hex digits, all in one letter case or with a
\* valid checksum ("0xABC1" stands for the all-uppercase form).
isValidWalletAddress(address) == address \in {"0xabc1", "0xABC1", "0xabc2"}

\* String comparison of the users table's columns: the schema declares no
\* collation, and the server's default one ignores letter case.
ColumnEquals(stored, str) == stored # NULL /\ toLowerCase(stored) = toLowerCase(str)

\* User.findByEmail(email): where { email: email.toLowerCase() }
findByEmail(email) ==
  {i \in UserIds : ColumnEquals(users[i].email, toLowerCase(email))}

\* authenticateToken: the token's user must still exist and be active.
authenticateToken(userId) == userId \in UserIds /\ users[userId].isActive

\* requireVerified
requireVerified(userId) == users[userId].isVerified

otpRejected_never(otpResult) == FALSE
\* if (!otpResult.valid) return res.status(400)
otpRejected(otpResult) == ~otpResult.valid

\* POST /api/auth/register; code is what generateCode returns.
AuthRegister(email, walletAddress, code) ==
  IF findByEmail(email) # {}
  THEN /\ lastReq' = Req("POST /auth/register", 409)
       /\ UNCHANGED <<users, tokens, otpVars>>
  ELSE /\ Len(users) < MaxUsers
       /\ users' = Append(users, UserRow(email, walletAddress))
       /\ createOTP(email, "registration", code)
       /\ lastReq' = Req("POST /auth/register", 201)
       /\ UNCHANGED tokens

\* POST /api/auth/verify-email
AuthVerifyEmail(email, code) ==
  /\ verifyOTP(email, code, "registration")
  /\ IF otpRejected(lastOtp')
     THEN /\ lastReq' = Req("POST /auth/verify-email", 400)
          /\ UNCHANGED <<users, tokens>>
     ELSE IF findByEmail(email) = {}
     THEN /\ lastReq' = Req("POST /auth/verify-email", 404)
          /\ UNCHANGED <<users, tokens>>
     ELSE \E i \in findByEmail(email) :
          /\ users' = [users EXCEPT ![i].isVerified = TRUE]
          /\ tokens' = tokens \cup {i}
          /\ lastReq' = Req("POST /auth/verify-email", 200)

\* User.findActiveByEmail(email): where { email: email.toLowerCase(), isActive: true }
findActiveByEmail(email) == {i \in findByEmail(email) : users[i].isActive}

\* user.comparePassword(candidatePassword): bcrypt.compare with the stored
\* hash, which the hooks compute from the password last saved.
comparePassword_any(userId, candidatePassword) == TRUE
comparePassword(userId, candidatePassword) ==
  users[userId].password = candidatePassword

UpdatePassword_andVerify(rows, userId, newPassword) ==
  [rows EXCEPT ![userId].password = newPassword, ![userId].isVerified = TRUE]
\* user.update({ password: newPassword })
UpdatePassword(rows, userId, newPassword) ==
  [rows EXCEPT ![userId].password = newPassword]

\* POST /api/auth/login; code is what generateCode returns.
AuthLogin(email, password, code) ==
  /\ IF findActiveByEmail(email) = {}
     THEN /\ lastReq' = Req("POST /auth/login", 401)
          /\ UNCHANGED <<otpVars, loginLog>>
     ELSE \E i \in findActiveByEmail(email) :
          IF ~comparePassword(i, password)
          THEN /\ lastReq' = Req("POST /auth/login", 401)
               /\ UNCHANGED <<otpVars, loginLog>>
          ELSE IF ~users[i].isVerified
          THEN /\ lastReq' = Req("POST /auth/login", 403)
               /\ UNCHANGED <<otpVars, loginLog>>
          ELSE /\ createOTP(email, "login", code)
               /\ lastReq' = Req("POST /auth/login", 200)
               /\ loginLog' = [loginLog EXCEPT !.issued = @ \cup
                     {[user |-> i, code |-> code, createdAt |-> now,
                       password |-> password, stored |-> users[i].password]}]
  /\ UNCHANGED <<users, tokens>>

\* POST /api/auth/verify-login
AuthVerifyLogin(email, code) ==
  /\ verifyOTP(email, code, "login")
  /\ IF otpRejected(lastOtp')
     THEN /\ lastReq' = Req("POST /auth/verify-login", 400)
          /\ UNCHANGED <<users, tokens, loginLog>>
     ELSE IF findActiveByEmail(email) = {}
     THEN /\ lastReq' = Req("POST /auth/verify-login", 404)
          /\ UNCHANGED <<users, tokens, loginLog>>
     ELSE \E i \in findActiveByEmail(email) :
          /\ users' = [users EXCEPT ![i].lastLogin = now]
          /\ tokens' = tokens \cup {i}
          /\ loginLog' = [loginLog EXCEPT !.tokens = @ \cup {i}]
          /\ lastReq' = Req("POST /auth/verify-login", 200)

\* POST /api/auth/forgot-password
AuthForgotPassword(email, code) ==
  /\ IF findActiveByEmail(email) # {}
     THEN createOTP(email, "password_reset", code)
     ELSE UNCHANGED otpVars
  /\ lastReq' = Req("POST /auth/forgot-password", 200)
  /\ UNCHANGED <<users, tokens, loginLog>>

\* POST /api/auth/reset-password
AuthResetPassword(email, code, newPassword) ==
  /\ verifyOTP(email, code, "password_reset")
  /\ IF otpRejected(lastOtp')
     THEN /\ lastReq' = Req("POST /auth/reset-password", 400)
          /\ UNCHANGED users
     ELSE IF findActiveByEmail(email) = {}
     THEN /\ lastReq' = Req("POST /auth/reset-password", 404)
          /\ UNCHANGED users
     ELSE \E i \in findActiveByEmail(email) :
          /\ users' = UpdatePassword(users, i, newPassword)
          /\ lastReq' = Req("POST /auth/reset-password", 200)
  /\ UNCHANGED <<tokens, loginLog>>

\* EmailService with MAILGUN_API_KEY and MAILGUN_DOMAIN set, so that
\* this.mailgun is a client and mail is handed to it.
MailgunConfigured == TRUE

\* What mailgun.messages.create does with a message: resolves or throws.
MailOutcomes == {"sent", "failed"}

\* emailService.sendOTP(email, otp, type), given what the Mailgun call does.
sendOTP(outcome) ==
  IF ~MailgunConfigured
  THEN [success |-> TRUE, preview |-> "Mailgun service disabled"]
  ELSE IF outcome = "sent"
  THEN [success |-> TRUE, preview |-> Undefined]
  ELSE [success |-> FALSE, preview |-> Undefined]

\* emailService.maskEmail(email) on the addresses of the model: the first
\* character of a one-letter local part, then ***@ and the domain.
maskEmail(email) ==
  CASE email = "u@x.com" -> "u***@x.com"
    [] email = "U@x.com" -> "U***@x.com"
    [] email = "v@x.com" -> "v***@x.com"
    [] OTHER -> "***"

\* The 201 response of POST /register.
RegisterBody(email, emailResult) ==
  Body(TRUE,
       "Registration initiated. Please check your email for verification code.",
       maskEmail(email), emailResult.preview)

\* The 200 response of POST /login.
LoginBody(email, emailResult) ==
  Body(TRUE, "Login OTP sent to your email", maskEmail(email), emailResult.preview)

ForgotPasswordBody_reveals(email, otpSent) ==
  Body(TRUE,
       IF otpSent THEN "A password reset code has been sent"
       ELSE "If an account with this email exists, a password reset code has been sent.",
       maskEmail(email), Undefined)
\* The 200 response of POST /forgot-password; otpSent is computed and not used.
ForgotPasswordBody(email, otpSent) ==
  Body(TRUE,
       "If an account with this email exists, a password reset code has been sent.",
       maskEmail(email), Undefined)

\* The body of a 4xx response.
ErrorBody(message) == Body(FALSE, message, Undefined, Undefined)

\* POST /api/auth/register with its response body; outcome is what the
\* Mailgun call does if the request comes to send the passcode.
PostRegister(email, walletAddress, code, outcome) ==
  /\ AuthRegister(email, walletAddress, code)
  /\ IF lastReq'.status = 201
     THEN /\ lastMail' = outcome
          /\ lastBody' = RegisterBody(email, sendOTP(outcome))
     ELSE /\ lastMail' = "none"
          /\ lastBody' = ErrorBody("User with this email already exists")
  /\ UNCHANGED loginLog

\* POST /api/auth/verify-email with its response body.
PostVerifyEmail(email, code) ==
  /\ AuthVerifyEmail(email, code)
  /\ lastMail' = "none"
  /\ lastBody' = IF lastReq'.status = 200
                 THEN Body(TRUE, "Email verified successfully", Undefined, Undefined)
                 ELSE IF lastReq'.status = 400
                 THEN ErrorBody("Invalid or expired OTP")
                 ELSE ErrorBody("User not found")
  /\ UNCHANGED loginLog

\* POST /api/auth/login with its response body.
PostLogin(email, password, code, outcome) ==
  /\ AuthLogin(email, password, code)
  /\ IF lastReq'.status = 200
     THEN /\ lastMail' = outcome
          /\ lastBody' = LoginBody(email, sendOTP(outcome))
     ELSE /\ lastMail' = "none"
          /\ lastBody' = IF lastReq'.status = 401
                         THEN ErrorBody("Invalid credentials")
                         ELSE ErrorBody("Please verify your email address before logging in")

\* POST /api/auth/verify-login with its response body.
PostVerifyLogin(email, code) ==
  /\ AuthVerifyLogin(email, code)
  /\ lastMail' = "none"
  /\ lastBody' = IF lastReq'.status = 200
                 THEN Body(TRUE, "Login successful", Undefined, Undefined)
                 ELSE IF lastReq'.status = 400
                 THEN ErrorBody("Invalid or expired OTP")
                 ELSE ErrorBody("User not found")

\* POST /api/auth/forgot-password with its response body.
PostForgotPassword(email, code, outcome) ==
  /\ AuthForgotPassword(email, code)
  /\ lastMail' = IF findActiveByEmail(email) # {} THEN outcome ELSE "none"
  /\ lastBody' = ForgotPasswordBody(email,
                   findActiveByEmail(email) # {} /\ sendOTP(outcome).success)

OtherHolders_activeOnly(userId, walletAddress) ==
  {i \in UserIds : /\ i # userId
                   /\ users[i].isActive
                   /\ ColumnEquals(users[i].walletAddress, walletAddress)}
\* The users other than userId whose walletAddress column equals the address.
OtherHolders(userId, walletAddress) ==
  {i \in UserIds : i # userId /\ ColumnEquals(users[i].walletAddress, walletAddress)}

registerUserWalletStatus_noRebind(userId, walletAddress) ==
  IF ~isValidWalletAddress(walletAddress) THEN "Invalid wallet address format"
  ELSE IF OtherHolders(userId, toLowerCase(walletAddress)) # {}
  THEN "This wallet address is already registered by another user"
  ELSE IF Truthy(users[userId].walletAddress) THEN "Wallet already registered"
  ELSE "ok"
registerUserWalletStatus_noHolderCheck(userId, walletAddress) ==
  IF ~isValidWalletAddress(walletAddress) THEN "Invalid wallet address format"
  ELSE "ok"
\* WalletService.registerUserWallet: "ok" or the message of the error thrown.
registerUserWalletStatus(userId, walletAddress) ==
  IF ~isValidWalletAddress(walletAddress) THEN "Invalid wallet address format"
  ELSE IF OtherHolders(userId, toLowerCase(walletAddress)) # {}
  THEN "This wallet address is already registered by another user"
  ELSE "ok"

\* The exchange of a POST /api/wallet/register that succeeded; replaced
\* records whether the account held another address until then, which the
\* response does not say.
RegisterReq(replaced) ==
  [route |-> "POST /wallet/register", status |-> 200, replaced |-> replaced]

\* POST /api/wallet/register, sent with a token signed for userId.
WalletRegister(userId, walletAddress) ==
  /\ userId \in tokens
  /\ LET status == registerUserWalletStatus(userId, walletAddress) IN
     IF ~authenticateToken(userId)
     THEN lastReq' = Req("POST /wallet/register", 401) /\ UNCHANGED users
     ELSE IF ~MatchesAddressRegex(walletAddress)
     THEN lastReq' = Req("POST /wallet/register", 400) /\ UNCHANGED users
     ELSE IF status = "This wallet address is already registered by another user"
     THEN lastReq' = Req("POST /wallet/register", 409) /\ UNCHANGED users
     ELSE IF status # "ok"
     THEN lastReq' = Req("POST /wallet/register", 500) /\ UNCHANGED users
     ELSE /\ users' = [users EXCEPT
                         ![userId].walletAddress = toLowerCase(walletAddress)]
          /\ lastReq' = RegisterReq(
                           /\ Truthy(users[userId].walletAddress)
                           /\ toLowerCase(users[userId].walletAddress)
                                # toLowerCase(walletAddress))
  /\ UNCHANGED <<tokens, otpVars>>

verifyUserWallet_caseSensitive(userId, currentWalletAddress) ==
  IF ~isValidWalletAddress(currentWalletAddress)
  THEN Verification(FALSE, FALSE, FALSE)
  ELSE IF ~Truthy(users[userId].walletAddress)
  THEN Verification(TRUE, FALSE, TRUE)
  ELSE Verification(TRUE, users[userId].walletAddress = currentWalletAddress, FALSE)
\* WalletService.verifyUserWallet(userId, currentWalletAddress)
verifyUserWallet(userId, currentWalletAddress) ==
  IF ~isValidWalletAddress(currentWalletAddress)
  THEN Verification(FALSE, FALSE, FALSE)
  ELSE IF userId \notin UserIds
  THEN Verification(FALSE, FALSE, FALSE)
  ELSE IF ~Truthy(users[userId].walletAddress)
  THEN Verification(TRUE, FALSE, TRUE)
  ELSE Verification(TRUE,
                    toLowerCase(users[userId].walletAddress)
                      = toLowerCase(currentWalletAddress),
                    FALSE)

\* POST /api/wallet/verify, sent with a token signed for userId.
WalletVerify(userId, walletAddress) ==
  /\ userId \in tokens
  /\ lastReq' =
       IF ~authenticateToken(userId)
       THEN VerifyReq(401, walletAddress, Verification(FALSE, FALSE, FALSE))
       ELSE IF ~MatchesAddressRegex(walletAddress)
       THEN VerifyReq(400, walletAddress, Verification(FALSE, FALSE, FALSE))
       ELSE VerifyReq(200, walletAddress, verifyUserWallet(userId, walletAddress))
  /\ UNCHANGED <<users, tokens, otpVars>>

\* DELETE /api/wallet/unregister
WalletUnregister(userId) ==
  /\ userId \in tokens
  /\ IF ~authenticateToken(userId)
     THEN lastReq' = Req("DELETE /wallet/unregister", 401) /\ UNCHANGED users
     ELSE /\ users' = [users EXCEPT ![userId].walletAddress = NULL]
          /\ lastReq' = Req("DELETE /wallet/unregister", 200)
  /\ UNCHANGED <<tokens, otpVars>>

\* PUT /api/users/profile; walletAddress is the body's field or Undefined.
UsersProfile(userId, walletAddress) ==
  /\ userId \in tokens
  /\ IF ~authenticateToken(userId)
     THEN lastReq' = Req("PUT /users/profile", 401) /\ UNCHANGED users
     ELSE IF ~requireVerified(userId)
     THEN lastReq' = Req("PUT /users/profile", 403) /\ UNCHANGED users
     ELSE IF Truthy(walletAddress) /\ ~MatchesAddressRegex(walletAddress)
     THEN lastReq' = Req("PUT /users/profile", 400) /\ UNCHANGED users
     ELSE /\ users' = IF walletAddress # Undefined
                      THEN [users EXCEPT ![userId].walletAddress = walletAddress]
                      ELSE users
          /\ lastReq' = Req("PUT /users/profile", 200)
  /\ UNCHANGED <<tokens, otpVars>>

\* PUT /api/users/wallet
UsersWallet(userId, walletAddress) ==
  /\ userId \in tokens
  /\ IF ~authenticateToken(userId)
     THEN lastReq' = Req("PUT /users/wallet", 401) /\ UNCHANGED users
     ELSE IF ~requireVerified(userId)
     THEN lastReq' = Req("PUT /users/wallet", 403) /\ UNCHANGED users
     ELSE IF ~Truthy(walletAddress) \/ ~MatchesAddressRegex(walletAddress)
     THEN lastReq' = Req("PUT /users/wallet", 400) /\ UNCHANGED users
     ELSE /\ users' = [users EXCEPT ![userId].walletAddress = walletAddress]
          /\ lastReq' = Req("PUT /users/wallet", 200)
  /\ UNCHANGED <<tokens, otpVars>>

\* DELETE /api/users/account
UsersDeleteAccount(userId) ==
  /\ userId \in tokens
  /\ IF ~authenticateToken(userId)
     THEN lastReq' = Req("DELETE /users/account", 401) /\ UNCHANGED users
     ELSE IF ~requireVerified(userId)
     THEN lastReq' = Req("DELETE /users/account", 403) /\ UNCHANGED users
     ELSE /\ users' = [users EXCEPT ![userId].isActive = FALSE]
          /\ lastReq' = Req("DELETE /users/account", 200)
  /\ UNCHANGED <<tokens, otpVars>>

\* Request bodies' walletAddress field.
WalletBodies == WalletStrings \cup {Undefined, ""}

(***************************************************************************)
(* One browser session: AuthContext, the Web3Service singleton, the        *)
(* useWalletValidation hook and the VotingPage, talking to the API and     *)
(* sending transactions to the contract.                                   *)
(***************************************************************************)
\* The email of the person at the browser, the wallet addresses they put in
\* forms, and the accounts their MetaMask offers (as MetaMask spells them).
ClientEmail == "u@x.com"
ClientWallets == {Undefined, "0xabc1", "0xabc2"}
ClientAccounts == {"0xABC1", "0xabc2"}
ClientNames == {"Alice"}

\* useState initial values of VotingPage.
InitPage ==
  [web3Initialized |-> FALSE, isOwner |-> FALSE, votingOpen |-> FALSE,
   voterInfo |-> [isRegistered |-> FALSE, hasVoted |-> FALSE],
   candidates |-> 0,
   walletAuthStatus |-> [isNull |-> TRUE, hasWallet |-> FALSE, isVerified |-> FALSE]]

WalletAuthStatus(hasWallet, isVerified) ==
  [isNull |-> FALSE, hasWallet |-> hasWallet, isVerified |-> isVerified]

\* A transaction submitted by web3Service, with what the page knew at the click.
Sent(op, from, verified, fresh) ==
  [op |-> op, from |-> from, verified |-> verified, fresh |-> fresh]

\* What validateWallet resolved with.
Returned(valid, message) == [isValid |-> valid, message |-> message]

\* useState initial value of useWalletValidation; nothing was returned yet.
InitValidation ==
  [isValid |-> FALSE, connectedAddress |-> "", registeredAddress |-> NULL,
   error |-> NULL, returned |-> Returned(FALSE, "")]

\* Requests the interceptor's calls of refreshTokens may have in flight for
\* one request of a caller, that request included.
MaxCalls == 4

\* The requests callers make while logged in.
ApiUrls == {"GET /wallet/status", "GET /auth/me", "PUT /users/profile"}

\* What the server may answer: the status and the body's success field.
ApiResponses ==
  {[status |-> 200, success |-> TRUE], [status |-> 200, success |-> FALSE],
   [status |-> 401, success |-> FALSE], [status |-> 404, success |-> FALSE]}

\* A request of the axios instance: its config's url and _retry flag, and
\* whether it is on the wire or its interceptor awaits refreshTokens().
ApiCall(url, retry, state) == [url |-> url, retry |-> retry, state |-> state]

\* No request was made yet. stored tells whether localStorage holds the user
\* and the tokens; refreshes and retries count the POST /auth/refresh requests
\* and the re-sent requests since the caller's request was made, and status is
\* that of the answer received last.
InitApi ==
  [calls |-> <<>>, outcome |-> "none", url |-> "", stored |-> FALSE,
   refreshes |-> 0, retries |-> 0, status |-> 0]

InitClient ==
  /\ api = InitApi
  /\ validation = InitValidation
  /\ sessionUser = 0
  /\ account = ""
  /\ contract = FALSE
  /\ page = InitPage
  /\ pending = [effects |-> FALSE, reload |-> FALSE]
  /\ lastSent = Sent("none", "", FALSE, FALSE)
  /\ freshMatch = FALSE

isAuthenticated == sessionUser # 0

\* walletAuthStatus?.isVerified
IsVerified == ~page.walletAuthStatus.isNull /\ page.walletAuthStatus.isVerified

\* WalletService.getUserWalletStatus(userId).hasWallet
hasWallet(userId) == Truthy(users[userId].walletAddress)

\* WalletService.verifyUserWallet(userId, currentWalletAddress).isMatching
isMatching(userId, currentWalletAddress) ==
  /\ isValidWalletAddress(currentWalletAddress)
  /\ userId \in UserIds
  /\ Truthy(users[userId].walletAddress)
  /\ toLowerCase(users[userId].walletAddress) = toLowerCase(currentWalletAddress)

\* Web3Service.checkWalletAuthentication: GET /wallet/status, then
\* POST /wallet/verify with this.account; any failed request lands in catch.
checkWalletAuthentication ==
  IF account = "" THEN WalletAuthStatus(FALSE, FALSE)
  ELSE IF ~authenticateToken(sessionUser) THEN WalletAuthStatus(FALSE, FALSE)
  ELSE IF ~hasWallet(sessionUser) THEN WalletAuthStatus(FALSE, FALSE)
  ELSE IF ~MatchesAddressRegex(account) THEN WalletAuthStatus(FALSE, FALSE)
  ELSE WalletAuthStatus(TRUE, isMatching(sessionUser, account))

\* Web3Service.isOwner
isOwner == contract /\ toLowerCase(owner) = toLowerCase(account)

\* Web3Service.getVoterInfo, reading the voters mapping as the chain holds it.
getVoterInfo(onChain) ==
  [isRegistered |-> onChain[toLowerCase(account)].isRegistered,
   hasVoted |-> onChain[toLowerCase(account)].hasVoted]

\* AuthContext.register from the sign-up form: POST /auth/register.
register(walletAddress, code) ==
  /\ ~isAuthenticated
  /\ AuthRegister(ClientEmail, walletAddress, code)
  /\ UNCHANGED clientVars

\* AuthContext.verifyEmail: POST /auth/verify-email, LOGIN_SUCCESS on success.
verifyEmail(code) ==
  /\ ~isAuthenticated
  /\ AuthVerifyEmail(ClientEmail, code)
  /\ sessionUser' = IF lastReq'.status = 200
                    THEN CHOOSE i \in findByEmail(ClientEmail) : TRUE
                    ELSE sessionUser
  /\ UNCHANGED <<account, contract, page, pending, lastSent, freshMatch, validation, api>>

\* VotingPage.initializeWeb3 with Web3Service.initialize: accounts[0] is a.
initializeWeb3(a) ==
  /\ isAuthenticated /\ ~page.web3Initialized
  /\ account' = a
  /\ contract' = TRUE
  /\ page' = [page EXCEPT !.web3Initialized = TRUE]
  /\ pending' = [pending EXCEPT !.effects = TRUE]
  /\ freshMatch' = FALSE
  /\ UNCHANGED <<sessionUser, lastSent, validation, api>>

\* The effect on web3Initialized: loadContractData and checkWalletAuth.
loadContractData ==
  IF contract
  THEN [page EXCEPT !.isOwner = isOwner, !.votingOpen = votingOpen,
                    !.voterInfo = getVoterInfo(voters), !.candidates = Len(candidates)]
  ELSE page

onWeb3Initialized ==
  /\ pending.effects
  /\ page' = [loadContractData EXCEPT !.walletAuthStatus = checkWalletAuthentication]
  /\ freshMatch' = checkWalletAuthentication.isVerified
  /\ pending' = [pending EXCEPT !.effects = FALSE]
  /\ UNCHANGED <<sessionUser, account, contract, lastSent, validation, api>>

\* MetaMask's accountsChanged event: Web3Service.handleAccountChange and the
\* listener of useWalletValidation.
accountsChanged(accounts) ==
  /\ page.web3Initialized
  /\ IF accounts = <<>>
     THEN /\ account # ""
          /\ account' = ""
          /\ contract' = FALSE
          /\ sessionUser' = 0
          /\ UNCHANGED pending
     ELSE /\ accounts[1] # account
          /\ account' = accounts[1]
          /\ pending' = [pending EXCEPT !.reload = isAuthenticated]
          /\ UNCHANGED <<contract, sessionUser>>
  /\ freshMatch' = FALSE
  /\ UNCHANGED <<page, lastSent, validation, api>>

\* window.location.reload() scheduled by the listener: the page and the
\* Web3Service singleton start over, the stored login remains.
reload ==
  /\ pending.reload
  /\ account' = ""
  /\ contract' = FALSE
  /\ page' = InitPage
  /\ pending' = [effects |-> FALSE, reload |-> FALSE]
  /\ freshMatch' = FALSE
  /\ validation' = InitValidation
  /\ UNCHANGED <<sessionUser, lastSent, api>>

\* The page is on screen and no handler holds its loading flag.
Interactive == isAuthenticated /\ page.web3Initialized /\ ~pending.effects

\* VotingPage.registerSelf, clicked on its button.
clickRegisterSelf ==
  /\ Interactive /\ ~page.voterInfo.isRegistered /\ IsVerified
  /\ IF ~IsVerified \/ ~contract
     THEN UNCHANGED <<ledgerVars, page, lastSent>>
     ELSE /\ registerSelf(toLowerCase(account))
          /\ lastSent' = Sent("registerSelf", account, IsVerified, freshMatch)
          /\ page' = IF lastTx'.status = "ok"
                     THEN [page EXCEPT !.voterInfo = getVoterInfo(voters')]
                     ELSE page

\* VotingPage.addCandidate, clicked in the admin panel.
clickAddCandidate(name) ==
  /\ Interactive /\ page.isOwner /\ name # ""
  /\ IF ~IsVerified \/ ~contract
     THEN UNCHANGED <<ledgerVars, page, lastSent>>
     ELSE /\ addCandidate(toLowerCase(account), name)
          /\ lastSent' = Sent("addCandidate", account, IsVerified, freshMatch)
          /\ page' = IF lastTx'.status = "ok"
                     THEN [page EXCEPT !.candidates = Len(candidates')]
                     ELSE page

\* VotingPage.openVoting, clicked in the admin panel.
clickOpenVoting ==
  /\ Interactive /\ page.isOwner /\ ~page.votingOpen /\ page.candidates # 0
  /\ IF ~contract
     THEN UNCHANGED <<ledgerVars, page, lastSent>>
     ELSE /\ openVoting(toLowerCase(account))
          /\ lastSent' = Sent("openVoting", account, IsVerified, freshMatch)
          /\ page' = IF lastTx'.status = "ok"
                     THEN [page EXCEPT !.votingOpen = TRUE]
                     ELSE page

\* VotingPage.closeVoting, clicked in the admin panel.
clickCloseVoting ==
  /\ Interactive /\ page.isOwner /\ page.votingOpen
  /\ IF ~contract
     THEN UNCHANGED <<ledgerVars, page, lastSent>>
     ELSE /\ closeVoting(toLowerCase(account))
          /\ lastSent' = Sent("closeVoting", account, IsVerified, freshMatch)
          /\ page' = IF lastTx'.status = "ok"
                     THEN [page EXCEPT !.votingOpen = FALSE]
                     ELSE page

\* VotingPage.castVote, clicked on a candidate's Vote button.
clickCastVote(candidateId) ==
  /\ Interactive /\ page.voterInfo.isRegistered /\ ~page.voterInfo.hasVoted
  /\ page.votingOpen /\ IsVerified /\ candidateId < page.candidates
  /\ IF ~IsVerified \/ ~contract
     THEN UNCHANGED <<ledgerVars, page, lastSent>>
     ELSE /\ castVote(toLowerCase(account), candidateId)
          /\ lastSent' = Sent("castVote", account, IsVerified, freshMatch)
          /\ page' = IF lastTx'.status = "ok"
                     THEN [page EXCEPT !.voterInfo = getVoterInfo(voters'),
                                       !.candidates = Len(candidates')]
                     ELSE page

\* What a click leaves alone.
ClickFrame ==
  UNCHANGED <<otpVars, storeVars, authVars, sessionUser, account, contract, pending,
              freshMatch, validation, api>>

\* A request of the logged-in user that may write their walletAddress column.
WritesWallet(request) ==
  /\ isAuthenticated
  /\ request
  /\ freshMatch' = (freshMatch /\ users'[sessionUser].walletAddress
                                    = users[sessionUser].walletAddress)
  /\ UNCHANGED <<ledgerVars, authVars, sessionUser, account, contract, page, pending,
                 lastSent, validation, api>>

\* A method of APIService awaits this.api.get/put/post(url).
apiSend(url, stored) ==
  /\ api.calls = <<>>
  /\ api' = [calls |-> <<ApiCall(url, FALSE, "sent")>>, outcome |-> "pending",
             url |-> url, stored |-> stored, refreshes |-> 0, retries |-> 0,
             status |-> 0]

\* The promise of the newest request is rejected: a refreshTokens() awaiting
\* it catches and returns false, so the request that called it is rejected
\* with its own error, and so on down to the caller's request.
Rejected(a) == [a EXCEPT !.calls = <<>>, !.outcome = "rejected"]

\* The promise of the newest request is fulfilled: the caller's request is
\* settled; a refreshTokens() awaiting it returns true when the body carries
\* success and localStorage holds the user, and the request that called it is
\* sent again, otherwise that request is rejected.
Fulfilled(a, success) ==
  IF Len(a.calls) = 1
  THEN [a EXCEPT !.calls = <<>>, !.outcome = "resolved"]
  ELSE IF success /\ a.stored
  THEN [a EXCEPT !.calls = [SubSeq(a.calls, 1, Len(a.calls) - 1)
                              EXCEPT ![Len(a.calls) - 1].state = "sent"],
                 !.retries = a.retries + 1]
  ELSE Rejected(a)

\* The response interceptor, run on the answer to the newest request.
Intercept(a, response) ==
  LET n == Len(a.calls) IN
  IF response.status = 200 THEN Fulfilled(a, response.success)
  ELSE IF response.status = 401 /\ ~a.calls[n].retry
  THEN IF ~a.stored
       THEN Rejected(a)
       ELSE [a EXCEPT !.calls = Append([a.calls EXCEPT ![n].retry = TRUE,
                                                       ![n].state = "refreshing"],
                                       ApiCall("POST /auth/refresh", FALSE, "sent")),
                      !.refreshes = a.refreshes + 1]
  ELSE Rejected(a)

\* The server answers the request that is on the wire.
apiRespond(response) ==
  /\ api.calls # <<>>
  /\ (response.status = 401 /\ ~api.calls[Len(api.calls)].retry /\ api.stored)
       => Len(api.calls) < MaxCalls
  /\ api' = [Intercept(api, response) EXCEPT !.status = response.status]

\* Requests made through APIService one after the other, answered by a server
\* in any way.
NextApi ==
  \/ \E url \in ApiUrls, stored \in BOOLEAN :
       /\ apiSend(url, stored)
       /\ UNCHANGED <<ledgerVars, otpVars, storeVars, authVars, sessionUser, account,
                      contract, page, pending, lastSent, freshMatch, validation>>
  \/ \E response \in ApiResponses :
       /\ apiRespond(response)
       /\ UNCHANGED <<ledgerVars, otpVars, storeVars, authVars, sessionUser, account,
                      contract, page, pending, lastSent, freshMatch, validation>>

\* The walletPreview of GET /api/wallet/status: the first six and the last
\* four characters of the stored address, or null.
walletPreview(walletAddress) ==
  IF Truthy(walletAddress) THEN <<"preview", walletAddress>> ELSE NULL

\* The data object GET /api/wallet/status answers with.
StatusData(userId) ==
  [hasWallet |-> hasWallet(userId),
   isWalletValid |-> IF Truthy(users[userId].walletAddress)
                     THEN isValidWalletAddress(users[userId].walletAddress)
                     ELSE FALSE,
   walletPreview |-> walletPreview(users[userId].walletAddress)]

\* Reading a property of a JavaScript object: undefined when it has none.
Field(object, name) ==
  IF name \in DOMAIN object THEN object[name] ELSE Undefined

\* registeredAddress?.toLowerCase()
OptionalToLowerCase(str) ==
  IF str \in {NULL, Undefined} THEN Undefined ELSE toLowerCase(str)

\* logout() of AuthContext when asked for, nothing otherwise.
LogoutIf(forceLogout) ==
  sessionUser' = IF forceLogout THEN 0 ELSE sessionUser

\* useWalletValidation.validateWallet(forceLogout)
validateWallet(forceLogout) ==
  /\ IF ~isAuthenticated
     THEN /\ validation' = [validation EXCEPT
                              !.returned = Returned(TRUE, "Not authenticated")]
          /\ UNCHANGED <<sessionUser, lastReq>>
     ELSE IF account = ""
     THEN /\ validation' = [validation EXCEPT
                              !.isValid = FALSE, !.error = "No wallet connected",
                              !.returned = Returned(FALSE, "No wallet connected")]
          /\ LogoutIf(forceLogout)
          /\ UNCHANGED lastReq
     ELSE IF ~authenticateToken(sessionUser)
     THEN /\ lastReq' = Req("GET /wallet/status", 401)
          /\ validation' = [validation EXCEPT
                              !.isValid = FALSE, !.error = "Request failed",
                              !.returned = Returned(FALSE, "Request failed")]
          /\ LogoutIf(forceLogout)
     ELSE IF ~StatusData(sessionUser).hasWallet
     THEN /\ lastReq' = Req("GET /wallet/status", 200)
          /\ validation' = [validation EXCEPT
                              !.isValid = FALSE, !.connectedAddress = account,
                              !.error = "No wallet registered",
                              !.returned = Returned(FALSE, "No wallet registered")]
          /\ LogoutIf(forceLogout)
     ELSE LET registeredAddress == Field(StatusData(sessionUser), "walletAddress")
              matching == toLowerCase(account) = OptionalToLowerCase(registeredAddress)
          IN /\ lastReq' = Req("GET /wallet/status", 200)
             /\ validation' =
                  [isValid |-> matching, connectedAddress |-> account,
                   registeredAddress |-> registeredAddress,
                   error |-> IF matching THEN NULL ELSE "Wallet mismatch",
                   returned |-> Returned(matching,
                                         IF matching THEN "Wallet validated"
                                         ELSE "Wallet address mismatch")]
             /\ LogoutIf(~matching /\ forceLogout)
  /\ UNCHANGED <<users, tokens, otpVars, account, contract, page, pending, lastSent,
                 freshMatch, api>>

\* One person signing up, connecting MetaMask and changing their profile's
\* wallet address while components call validateWallet.
NextValidate ==
  \/ \E w \in ClientWallets, c \in StoreCodes :
       register(w, c) /\ UNCHANGED <<ledgerVars, authVars>>
  \/ \E c \in Codes : verifyEmail(c) /\ UNCHANGED <<ledgerVars, authVars>>
  \/ \E a \in ClientAccounts :
       initializeWeb3(a) /\ UNCHANGED <<ledgerVars, otpVars, storeVars, authVars>>
  \/ onWeb3Initialized /\ UNCHANGED <<ledgerVars, otpVars, storeVars, authVars>>
  \/ \E accounts \in {<<>>} \cup {<<a>> : a \in ClientAccounts} :
       accountsChanged(accounts) /\ UNCHANGED <<ledgerVars, otpVars, storeVars, authVars>>
  \/ reload /\ UNCHANGED <<ledgerVars, otpVars, storeVars, authVars>>
  \/ \E w \in ClientWallets \ {Undefined} :
       WritesWallet(WalletRegister(sessionUser, w))
  \/ \E w \in ClientWallets \ {Undefined} :
       WritesWallet(UsersWallet(sessionUser, w))
  \/ WritesWallet(WalletUnregister(sessionUser))
  \/ \E f \in BOOLEAN : validateWallet(f) /\ UNCHANGED <<ledgerVars, authVars>>

\* One person signing up, logging in and using the voting page while their
\* MetaMask account and their profile's wallet address may change.
NextClient ==
  \/ \E w \in ClientWallets, c \in StoreCodes :
       register(w, c) /\ UNCHANGED <<ledgerVars, authVars>>
  \/ \E c \in Codes : verifyEmail(c) /\ UNCHANGED <<ledgerVars, authVars>>
  \/ \E a \in ClientAccounts :
       initializeWeb3(a) /\ UNCHANGED <<ledgerVars, otpVars, storeVars, authVars>>
  \/ onWeb3Initialized /\ UNCHANGED <<ledgerVars, otpVars, storeVars, authVars>>
  \/ \E accounts \in {<<>>} \cup {<<a>> : a \in ClientAccounts} :
       accountsChanged(accounts) /\ UNCHANGED <<ledgerVars, otpVars, storeVars, authVars>>
  \/ reload /\ UNCHANGED <<ledgerVars, otpVars, storeVars, authVars>>
  \/ clickRegisterSelf /\ ClickFrame
  \/ \E n \in ClientNames : clickAddCandidate(n) /\ ClickFrame
  \/ clickOpenVoting /\ ClickFrame
  \/ clickCloseVoting /\ ClickFrame
  \/ \E id \in CandidateIds : clickCastVote(id) /\ ClickFrame
  \/ \E w \in ClientWallets \ {Undefined} :
       WritesWallet(WalletRegister(sessionUser, w))
  \/ \E w \in ClientWallets \ {Undefined} :
       WritesWallet(UsersWallet(sessionUser, w))
  \/ WritesWallet(WalletUnregister(sessionUser))

\* Requests to the API by any identities, one at a time, while time passes.
NextStore ==
  \/ \E e \in StoreEmails, w \in WalletBodies, c \in StoreCodes :
       AuthRegister(e, w, c) /\ UNCHANGED <<ledgerVars, clientVars, authVars>>
  \/ \E e \in StoreEmails, c \in Codes :
       AuthVerifyEmail(e, c) /\ UNCHANGED <<ledgerVars, clientVars, authVars>>
  \/ \E u \in 1..MaxUsers, w \in WalletStrings :
       WalletRegister(u, w) /\ UNCHANGED <<ledgerVars, clientVars, authVars>>
  \/ \E u \in 1..MaxUsers :
       WalletUnregister(u) /\ UNCHANGED <<ledgerVars, clientVars, authVars>>
  \/ \E u \in 1..MaxUsers, w \in WalletBodies :
       UsersProfile(u, w) /\ UNCHANGED <<ledgerVars, clientVars, authVars>>
  \/ \E u \in 1..MaxUsers, w \in WalletBodies :
       UsersWallet(u, w) /\ UNCHANGED <<ledgerVars, clientVars, authVars>>
  \/ Tick /\ UNCHANGED <<ledgerVars, storeVars, clientVars, authVars>>

\* The wallet address the sign-up form sends when accounts are checked.
AuthWallets == {Undefined}

\* Requests to the account routes of the API by any identities, one at a
\* time, all within the lifetime of the passcodes issued.
NextAuth ==
  \/ \E e \in StoreEmails, w \in AuthWallets, c \in StoreCodes :
       AuthRegister(e, w, c) /\ UNCHANGED <<ledgerVars, clientVars, authVars>>
  \/ \E e \in StoreEmails, c \in Codes :
       AuthVerifyEmail(e, c) /\ UNCHANGED <<ledgerVars, clientVars, authVars>>
  \/ \E e \in StoreEmails, pw \in Passwords, c \in StoreCodes :
       AuthLogin(e, pw, c) /\ UNCHANGED <<ledgerVars, clientVars, mailVars>>
  \/ \E e \in StoreEmails, c \in Codes :
       AuthVerifyLogin(e, c) /\ UNCHANGED <<ledgerVars, clientVars, mailVars>>
  \/ \E e \in StoreEmails, c \in StoreCodes :
       AuthForgotPassword(e, c) /\ UNCHANGED <<ledgerVars, clientVars, mailVars>>
  \/ \E e \in StoreEmails, c \in Codes, pw \in Passwords :
       AuthResetPassword(e, c, pw) /\ UNCHANGED <<ledgerVars, clientVars, mailVars>>
  \/ \E y \in 1..MaxUsers :
       UsersDeleteAccount(y) /\ UNCHANGED <<ledgerVars, clientVars, authVars>>

\* Requests to the account routes that mail or verify a passcode, with the
\* response bodies, while the mail service delivers or fails.
NextMail ==
  \/ \E e \in Emails, w \in AuthWallets, c \in StoreCodes, m \in MailOutcomes :
       PostRegister(e, w, c, m) /\ UNCHANGED <<ledgerVars, clientVars>>
  \/ \E e \in Emails, c \in Codes :
       PostVerifyEmail(e, c) /\ UNCHANGED <<ledgerVars, clientVars>>
  \/ \E e \in Emails, pw \in Passwords, c \in StoreCodes, m \in MailOutcomes :
       PostLogin(e, pw, c, m) /\ UNCHANGED <<ledgerVars, clientVars>>
  \/ \E e \in Emails, c \in Codes :
       PostVerifyLogin(e, c) /\ UNCHANGED <<ledgerVars, clientVars>>
  \/ \E e \in Emails, c \in StoreCodes, m \in MailOutcomes :
       PostForgotPassword(e, c, m) /\ UNCHANGED <<ledgerVars, clientVars>>

\* Requests to the API by any identities, one at a time, all within the
\* lifetime of the passcodes issued.
NextWallet ==
  \/ \E e \in StoreEmails, w \in WalletBodies, c \in StoreCodes :
       AuthRegister(e, w, c) /\ UNCHANGED <<ledgerVars, clientVars, authVars>>
  \/ \E e \in StoreEmails, c \in Codes :
       AuthVerifyEmail(e, c) /\ UNCHANGED <<ledgerVars, clientVars, authVars>>
  \/ \E u \in 1..MaxUsers, w \in WalletStrings :
       WalletRegister(u, w) /\ UNCHANGED <<ledgerVars, clientVars, authVars>>
  \/ \E u \in 1..MaxUsers :
       WalletUnregister(u) /\ UNCHANGED <<ledgerVars, clientVars, authVars>>
  \/ \E u \in 1..MaxUsers, w \in WalletBodies :
       UsersProfile(u, w) /\ UNCHANGED <<ledgerVars, clientVars, authVars>>
  \/ \E u \in 1..MaxUsers, w \in WalletBodies :
       UsersWallet(u, w) /\ UNCHANGED <<ledgerVars, clientVars, authVars>>
  \/ \E u \in 1..MaxUsers, w \in WalletStrings :
       WalletVerify(u, w) /\ UNCHANGED <<ledgerVars, clientVars, authVars>>

\* The same requests, and identities that deactivate their accounts.
NextDeactivate ==
  \/ NextWallet
  \/ \E u \in 1..MaxUsers :
       UsersDeleteAccount(u) /\ UNCHANGED <<ledgerVars, clientVars, authVars>>

\* Calls of the passcode gate by requests handled at once: their database
\* statements interleave in any order.
NextOTPConc ==
  \/ \E p \in Procs, e \in ConcEmails, t \in OtpTypes, c \in Codes :
       createOTP_update(p, e, t, c) /\ UNCHANGED <<ledgerVars, storeVars, clientVars, authVars>>
  \/ \E p \in Procs :
       createOTP_create(p) /\ UNCHANGED <<ledgerVars, storeVars, clientVars, authVars>>
  \/ \E p \in Procs, e \in ConcEmails, t \in OtpTypes, c \in Codes :
       verifyOTP_findOne(p, e, c, t) /\ UNCHANGED <<ledgerVars, storeVars, clientVars, authVars>>
  \/ \E p \in Procs :
       verifyOTP_update(p) /\ UNCHANGED <<ledgerVars, storeVars, clientVars, authVars>>
  \/ \E p \in Procs :
       requestEnds(p) /\ UNCHANGED <<ledgerVars, storeVars, clientVars, authVars>>
  \/ Tick /\ UNCHANGED <<ledgerVars, storeVars, clientVars, authVars>>

\* Calls of the passcode gate, one at a time.
NextOTP ==
  \/ \E e \in GateEmails, t \in OtpTypes, c \in Codes :
       createOTP(e, t, c) /\ UNCHANGED <<ledgerVars, storeVars, clientVars, authVars>>
  \/ \E e \in GateEmails, t \in OtpTypes, c \in Codes :
       verifyOTP(e, c, t) /\ UNCHANGED <<ledgerVars, storeVars, clientVars, authVars>>
  \/ cleanupExpired /\ UNCHANGED <<ledgerVars, storeVars, clientVars, authVars>>
  \/ Tick /\ UNCHANGED <<ledgerVars, storeVars, clientVars, authVars>>

\* The passcode gate with the hourly sweep, for one identity spelled in one
\* way: calls run one at a time while time passes.
NextSweep ==
  \/ \E e \in ConcEmails, t \in OtpTypes, c \in StoreCodes :
       createOTP(e, t, c) /\ UNCHANGED <<ledgerVars, storeVars, clientVars, authVars>>
  \/ \E e \in ConcEmails, t \in OtpTypes, c \in Codes :
       verifyOTP(e, c, t) /\ UNCHANGED <<ledgerVars, storeVars, clientVars, authVars>>
  \/ cleanupExpired /\ UNCHANGED <<ledgerVars, storeVars, clientVars, authVars>>
  \/ Tick /\ UNCHANGED <<ledgerVars, storeVars, clientVars, authVars>>

\* The passcode gate called one at a time for two identities, one of them
\* spelled in two ways; generateCode may return the same code for any of them.
NextPairs ==
  \/ \E e \in Emails, t \in OtpTypes, c \in StoreCodes :
       createOTP(e, t, c) /\ UNCHANGED <<ledgerVars, storeVars, clientVars, authVars>>
  \/ \E e \in Emails, t \in OtpTypes, c \in Codes :
       verifyOTP(e, c, t) /\ UNCHANGED <<ledgerVars, storeVars, clientVars, authVars>>

NextLedger ==
  \/ \E s \in Addresses, v \in Addresses :
       registerVoter(s, v) /\ UNCHANGED <<otpVars, storeVars, clientVars, authVars>>
  \/ \E s \in Addresses, n \in Names :
       addCandidate(s, n) /\ UNCHANGED <<otpVars, storeVars, clientVars, authVars>>
  \/ \E s \in Addresses : openVoting(s) /\ UNCHANGED <<otpVars, storeVars, clientVars, authVars>>
  \/ \E s \in Addresses : closeVoting(s) /\ UNCHANGED <<otpVars, storeVars, clientVars, authVars>>
  \/ \E s \in Addresses : registerSelf(s) /\ UNCHANGED <<otpVars, storeVars, clientVars, authVars>>
  \/ \E s \in Addresses, c \in CandidateIds :
       castVote(s, c) /\ UNCHANGED <<otpVars, storeVars, clientVars, authVars>>

Init == InitLedger /\ InitOTP /\ InitStore /\ InitClient

SpecLedger == Init /\ [][NextLedger]_vars

SpecOTP == Init /\ [][NextOTP]_vars

SpecSweep == Init /\ [][NextSweep]_vars

SpecPairs == Init /\ [][NextPairs]_vars

SpecOTPConc == Init /\ [][NextOTPConc]_vars

SpecStore == Init /\ [][NextStore]_vars

SpecWallet == Init /\ [][NextWallet]_vars

SpecDeactivate == Init /\ [][NextDeactivate]_vars

SpecValidate == Init /\ [][NextValidate]_vars

SpecApi == Init /\ [][NextApi]_vars

SpecAuth == Init /\ [][NextAuth]_vars

SpecMail == Init /\ [][NextMail]_vars

SpecClient == Init /\ [][NextClient]_vars

(***************************************************************************)
(* Claims about the Voting Ledger, checked under SpecLedger.               *)
(***************************************************************************)
\* A step that executes a transaction (every transaction rewrites lastTx; a
\* step that leaves all variables alone is no transaction).
TxStep == vars' # vars

\* C1: in every reachable ledger state, every address that has voted is
\* registered: hasVoted(a) implies isRegistered(a).
C1_VotedImpliesRegistered ==
  \A a \in Addresses : voters[a].hasVoted => voters[a].isRegistered

C1_Witness ==
  \E a \in Addresses : voters[a].hasVoted /\ voters[a].isRegistered

\* C2: for every address, at most one castVote call sent from it ever
\* succeeds, whatever the history of openings, closings and added candidates.
C2_AtMostOneVote ==
  \A a \in Addresses : voteSuccesses[a] <= 1

\* An address that voted has sent castVote again and was refused.
C2_Witness ==
  /\ lastTx.op = "castVote"
  /\ lastTx.status = "Already voted"
  /\ voteSuccesses[lastTx.sender] = 1

\* C3 as stated: after an address has voted, every later castVote from it, for
\* any candidateId and in any ledger state, reverts with "Already voted" and
\* leaves the results unchanged.
C3_Original ==
  [][(TxStep /\ lastTx'.op = "castVote" /\ voters[lastTx'.sender].hasVoted)
       => (lastTx'.status = "Already voted" /\ getResults' = getResults)]_vars

\* C3 amended: after an address has voted, every later castVote from it
\* reverts and leaves the whole ledger state unchanged; the reason is the first
\* failing check: "Voting is closed" while voting is closed, "Invalid
\* candidate" for an out-of-range id while open, "Already voted" otherwise.
C3_RevotingReverts ==
  [][(TxStep /\ lastTx'.op = "castVote" /\ voters[lastTx'.sender].hasVoted)
       => /\ lastTx'.status =
               (IF ~votingOpen THEN "Voting is closed"
                ELSE IF lastTx'.id >= Len(candidates) THEN "Invalid candidate"
                ELSE "Already voted")
          /\ getResults' = getResults
          /\ UNCHANGED <<owner, voters, candidates, votingOpen>>]_vars

C3_Witness ==
  /\ lastTx.op = "castVote"
  /\ voters[lastTx.sender].hasVoted
  /\ lastTx.status = "Voting is closed"

\* C7 as stated: with no candidates, openVoting by any caller reverts with
\* "No candidates" and votingOpen stays false.
C7_Original ==
  [][(TxStep /\ lastTx'.op = "openVoting" /\ getCandidateCount = 0)
       => (lastTx'.status = "No candidates" /\ votingOpen' = FALSE)]_vars

\* C7 amended: with no candidates, openVoting by any caller reverts and
\* votingOpen stays false; the reason is "No candidates" for the owner and
\* "Only owner" for every other caller.
C7_OpenNeedsCandidate ==
  [][(TxStep /\ lastTx'.op = "openVoting" /\ getCandidateCount = 0)
       => /\ lastTx'.status =
               (IF lastTx'.sender = owner THEN "No candidates" ELSE "Only owner")
          /\ votingOpen = FALSE
          /\ votingOpen' = FALSE]_vars

C7_Witness ==
  /\ lastTx.op = "openVoting"
  /\ lastTx.sender = owner
  /\ lastTx.status = "No candidates"
  /\ ~votingOpen

(***************************************************************************)
(* Claims about the passcode gate, checked under SpecOTP (calls run one at *)
(* a time).                                                                *)
(***************************************************************************)
\* The newest row of one (email, type) pair, as a set: empty when the table
\* holds no row of the pair.
NewestRow(key) ==
  {i \in 1..Len(otps) :
     /\ otps[i].email = key[1] /\ otps[i].type = key[2]
     /\ \A j \in 1..Len(otps) :
          (otps[j].email = key[1] /\ otps[j].type = key[2]) => j <= i}

\* The passcode createOTP last returned for the pair has not expired: its row
\* is in the table (only expired rows are swept) with expiresAt in the future.
BeforeExpiry(key) == \E i \in NewestRow(key) : now < otps[i].expiresAt

\* The rows of one (email, type) pair that are unused and unexpired.
OutstandingRows(key) ==
  {i \in 1..Len(otps) : Outstanding(otps[i], key[1], key[2])}

\* C8: for the passcode createOTP last returned for (i, p) with code c, the
\* first verify(i, p, c) made before expiry returns valid=true and marks the
\* row used, and every later verify(i, p, c) with no new issue in between
\* returns valid=false.
C8_VerifyOnce ==
  [][\A e \in Emails, t \in OtpTypes, c \in Codes :
       (verifyOTP(e, c, t) /\ issued[PairKey(e, t)].code = c) =>
         LET g == issued[PairKey(e, t)] IN
         /\ (~g.verified /\ BeforeExpiry(PairKey(e, t))) =>
              /\ lastOtp'.valid
              /\ \E i \in OutstandingRows(PairKey(e, t)) :
                   otps[i].code = c /\ otps'[i].isUsed
              /\ OutstandingRows(PairKey(e, t))' = {}
         /\ g.verified => ~lastOtp'.valid]_vars

\* A second verify of the code just accepted has been refused.
C8_Witness ==
  /\ lastOtp.op = "verifyOTP"
  /\ ~lastOtp.valid
  /\ LET g == issued[PairKey(lastOtp.email, lastOtp.type)] IN
     /\ g.code = lastOtp.code /\ g.verified
     /\ BeforeExpiry(PairKey(lastOtp.email, lastOtp.type))

\* C9 as stated: after a new createOTP for (i, p), a verify(i, p, old)
\* presenting a code issued earlier for the pair and not used returns
\* valid=false.
C9_Original ==
  [][\A e \in Emails, t \in OtpTypes, c \in Codes :
       (verifyOTP(e, c, t) /\ c \in issued[PairKey(e, t)].olderUnused)
         => ~lastOtp'.valid]_vars

\* C9 amended: after a new createOTP for (i, p), a verify(i, p, old)
\* presenting a code issued earlier for the pair and not used returns
\* valid=false, unless the newest passcode of the pair carries the same code
\* (generateCode may draw a code again); the rows issued earlier are never
\* the ones accepted.
C9_OldCodesInvalid ==
  [][\A e \in Emails, t \in OtpTypes, c \in Codes :
       (verifyOTP(e, c, t) /\ c \in issued[PairKey(e, t)].olderUnused) =>
         LET g == issued[PairKey(e, t)] IN
         /\ c # g.code => ~lastOtp'.valid
         /\ lastOtp'.valid =>
              \E i \in 1..Len(otps) :
                /\ otps'[i].isUsed /\ ~otps[i].isUsed
                /\ i \in NewestRow(PairKey(e, t))]_vars

\* An old code, superseded while still unexpired, has been presented and refused.
C9_Witness ==
  /\ lastOtp.op = "verifyOTP"
  /\ ~lastOtp.valid
  /\ LET g == issued[PairKey(lastOtp.email, lastOtp.type)] IN
     /\ lastOtp.code \in g.olderUnused
     /\ lastOtp.code # g.code
     /\ \E i \in 1..Len(otps) :
          /\ otps[i].code = lastOtp.code
          /\ otps[i].email = toLowerCase(lastOtp.email)
          /\ otps[i].type = lastOtp.type
          /\ otps[i].isUsed
          /\ otps[i].expiresAt > now

\* C10: with createOTP, verifyOTP and cleanupExpired running one at a time, at
\* most one row of each (email, type) pair is both unused and unexpired.
C10_OneOutstanding ==
  \A key \in Pairs : Cardinality(OutstandingRows(key)) <= 1

\* A pair holds its one outstanding row next to a row the issue invalidated.
C10_Witness ==
  \E key \in Pairs :
    /\ Cardinality(OutstandingRows(key)) = 1
    /\ \E i \in 1..Len(otps) :
         /\ otps[i].email = key[1] /\ otps[i].type = key[2]
         /\ otps[i].isUsed /\ otps[i].expiresAt > now

\* The accounts whose walletAddress column holds a bound address.
Bound == {i \in UserIds : Truthy(users[i].walletAddress)}

\* C6: in every state of the users table, no two accounts hold the same bound
\* wallet address, letter case ignored, whatever registrations, binds, profile
\* and wallet updates and unbinds were requested.
C6_Original ==
  \A i, j \in Bound :
    i # j => toLowerCase(users[i].walletAddress) # toLowerCase(users[j].walletAddress)

\* C4: every transaction the client submits for a logged-in identity
\* (registerSelf, castVote, addCandidate, openVoting, closeVoting) is submitted
\* with a wallet verification of that identity and the sending account that
\* returned isMatching=true; otherwise the action is refused before submission.
C4_Original ==
  lastSent.op # "none" => lastSent.verified

\* C5: a transaction that passed the page's wallet check is backed by a
\* verification that returned isMatching=true after the most recent change of
\* the connected account and of the identity's bound address; no earlier
\* result is reused.
C5_Original ==
  (lastSent.op # "none" /\ lastSent.verified) => lastSent.fresh

\* The calls that have completed and whose requests have not ended yet.
Done(p, op) == procs[p].pc = "done" /\ procs[p].op = op

\* C11: once two concurrent createOTP calls for the same (email, type) have
\* both completed, in whatever order their UPDATE and INSERT statements ran,
\* at most one unused, unexpired row of the pair exists.
C11_Original ==
  \A p, q \in Procs :
    (/\ p # q
     /\ Done(p, "createOTP") /\ Done(q, "createOTP")
     /\ PairKey(procs[p].email, procs[p].type) = PairKey(procs[q].email, procs[q].type))
    => Cardinality(OutstandingRows(PairKey(procs[p].email, procs[p].type))) <= 1

\* C12: of two concurrent verifyOTP calls presenting the same correct,
\* unexpired code of one (email, type), in whatever order their findOne and
\* update statements ran, at most one returns valid=true for a given row.
C12_Original ==
  \A p, q \in Procs :
    (/\ p # q
     /\ Done(p, "verifyOTP") /\ Done(q, "verifyOTP")
     /\ procs[p].valid /\ procs[q].valid)
    => procs[p].row # procs[q].row

\* The rows createOTP inserted for the pair with the given code: each is an
\* issue that returned that code, with the row's expiresAt.
IssuesOf(key, code) ==
  {i \in 1..Len(otps) :
     otps[i].email = key[1] /\ otps[i].type = key[2] /\ otps[i].code = code}

\* C13 as stated: once createOTP has returned code c with expiry time e for a
\* pair, a verifyOTP presenting c at any time t >= e returns valid=false and
\* marks nothing used.
C13_Original ==
  [][\A e \in Emails, t \in OtpTypes, c \in Codes :
       (/\ verifyOTP(e, c, t)
        /\ \E i \in IssuesOf(PairKey(e, t), c) : now >= otps[i].expiresAt)
       => (~lastOtp'.valid /\ otps' = otps)]_vars

\* C13: a verifyOTP presenting code c at a time when every passcode issued
\* for the pair with that code has reached its expiry time (t >= e, the
\* expiry instant included) returns valid=false and marks nothing used.
C13_ExpiredInvalid ==
  [][\A e \in Emails, t \in OtpTypes, c \in Codes :
       (/\ verifyOTP(e, c, t)
        /\ IssuesOf(PairKey(e, t), c) # {}
        /\ \A i \in IssuesOf(PairKey(e, t), c) : now >= otps[i].expiresAt)
       => (~lastOtp'.valid /\ otps' = otps)]_vars

\* An unused passcode was presented at or after its expiry time and refused,
\* and its row is still unused.
C13_Witness ==
  /\ lastOtp.op = "verifyOTP"
  /\ ~lastOtp.valid
  /\ \E i \in IssuesOf(PairKey(lastOtp.email, lastOtp.type), lastOtp.code) :
       ~otps[i].isUsed /\ now >= otps[i].expiresAt
  /\ \A i \in IssuesOf(PairKey(lastOtp.email, lastOtp.type), lastOtp.code) :
       now >= otps[i].expiresAt

\* The accounts other than y that hold a well-formed bound address equal to w
\* when letter case is ignored.
HeldElsewhere(y, w) ==
  {x \in Bound : /\ x # y
                 /\ MatchesAddressRegex(users[x].walletAddress)
                 /\ toLowerCase(users[x].walletAddress) = toLowerCase(w)}

C15_Original ==
  [][\A x \in 1..MaxUsers, w \in WalletStrings :
       (WalletVerify(x, w) /\ MatchesAddressRegex(w)) =>
         LET held == users[x].walletAddress IN
         /\ (Truthy(held) /\ toLowerCase(held) = toLowerCase(w))
              => (lastReq'.isValid /\ lastReq'.isMatching)
         /\ held = NULL
              => (~lastReq'.isMatching /\ lastReq'.needsRegistration)]_vars

\* C15: the same for the spellings web3.utils.isAddress accepts (one letter
\* case or the checksum spelling); for any other mixed-case spelling the call
\* answers isValid=false, isMatching=false and no needsRegistration, bound or
\* not.
C15_VerifyMatch ==
  [][\A x \in 1..MaxUsers, w \in WalletStrings :
       (WalletVerify(x, w) /\ MatchesAddressRegex(w)) =>
         LET held == users[x].walletAddress IN
         /\ lastReq'.status = 200
         /\ lastReq'.isValid = isValidWalletAddress(w)
         /\ (Truthy(held) /\ toLowerCase(held) = toLowerCase(w))
              => (lastReq'.isMatching = isValidWalletAddress(w)
                  /\ ~lastReq'.needsRegistration)
         /\ held = NULL
              => (~lastReq'.isMatching
                  /\ lastReq'.needsRegistration = isValidWalletAddress(w))]_vars

\* The only logged-in account holds "0xabc1" and its verify of "0xABC1" was
\* answered with isMatching=true.
C15_Witness ==
  /\ lastReq.route = "POST /wallet/verify"
  /\ lastReq.status = 200
  /\ lastReq.walletAddress = "0xABC1"
  /\ lastReq.isValid /\ lastReq.isMatching
  /\ \E x \in UserIds : tokens = {x} /\ users[x].walletAddress = "0xabc1"

\* C16: in every state of the users table, an account whose isVerified flag is
\* false holds no bound wallet address.
C16_Original ==
  \A i \in UserIds : ~users[i].isVerified => ~Truthy(users[i].walletAddress)

\* C17: POST /auth/verify-login signs tokens for an identity only when the
\* login passcode it verified was issued by a POST /auth/login whose
\* password matched the stored one, the passcode verification succeeded and
\* the account is verified; no account that holds login tokens is unverified.
C17_LoginTokens ==
  /\ [][\A e \in StoreEmails, c \in Codes :
          (AuthVerifyLogin(e, c) /\ lastReq'.status = 200) =>
            \E i \in findActiveByEmail(e) :
              /\ tokens' = tokens \cup {i}
              /\ users[i].isVerified
              /\ lastOtp'.valid /\ lastOtp'.type = "login"
              /\ \A r \in FindOneMatches(e, c, "login") :
                   \E l \in loginLog.issued :
                     /\ l.user = i /\ l.code = c
                     /\ l.createdAt = otps[r].createdAt
                     /\ l.password = l.stored]_vars
  /\ [](\A i \in loginLog.tokens : users[i].isVerified)

\* Login tokens have been signed for an account.
C17_Witness ==
  /\ lastReq = Req("POST /auth/verify-login", 200)
  /\ loginLog.tokens # {}

\* C18: an account's isVerified changes only from false to true, and only in
\* a POST /auth/verify-email step whose registration passcode verification
\* succeeded for the same identity; verify-login and reset-password steps
\* leave it as it was.
C18_VerifiedFlag ==
  [][/\ \A i \in UserIds :
          users'[i].isVerified # users[i].isVerified =>
            /\ ~users[i].isVerified
            /\ \E e \in StoreEmails, c \in Codes :
                 /\ AuthVerifyEmail(e, c)
                 /\ i \in findByEmail(e)
                 /\ lastOtp'.valid /\ lastOtp'.type = "registration"
     /\ \A e \in StoreEmails, c \in Codes :
          (AuthVerifyLogin(e, c) \/ \E pw \in Passwords : AuthResetPassword(e, c, pw))
            => \A i \in UserIds : users'[i].isVerified = users[i].isVerified]_vars

\* POST /auth/verify-email has just answered 200 and the account it names is
\* verified.
C18_Witness ==
  /\ lastReq = Req("POST /auth/verify-email", 200)
  /\ \E i \in findByEmail(lastOtp.email) : users[i].isVerified

\* The number of voter records that hold a vote for candidate id.
VotesHeldFor(id) ==
  Cardinality({a \in Addresses :
                 voters[a].hasVoted /\ voters[a].votedCandidateId = id})

\* C19: a castVote(c) by a that succeeds sets a's hasVoted and
\* votedCandidateId = c and adds exactly one to candidate c's voteCount in
\* the same step, leaving every other candidate's count, the names, every
\* other voter record, votingOpen and owner as they were; in every state each
\* candidate's voteCount equals the number of voter records holding a vote
\* for it.
C19_CastVoteEffect ==
  /\ [][\A a \in Addresses, c \in CandidateIds :
          (castVote(a, c) /\ lastTx'.status = "ok") =>
            /\ ~voters[a].hasVoted
            /\ voters'[a] = [isRegistered |-> voters[a].isRegistered,
                             hasVoted |-> TRUE, votedCandidateId |-> c]
            /\ \A b \in Addresses \ {a} : voters'[b] = voters[b]
            /\ Len(candidates') = Len(candidates)
            /\ candidates'[c + 1] =
                 [name |-> candidates[c + 1].name,
                  voteCount |-> candidates[c + 1].voteCount + 1]
            /\ \A j \in 1..Len(candidates) :
                 j # c + 1 => candidates'[j] = candidates[j]
            /\ votingOpen' = votingOpen
            /\ owner' = owner]_vars
  /\ [](\A j \in 1..Len(candidates) :
          candidates[j].voteCount = VotesHeldFor(j - 1))

\* A vote has just been cast for the second of two candidates.
C19_Witness ==
  /\ lastTx.op = "castVote" /\ lastTx.status = "ok" /\ lastTx.id = 1
  /\ Len(candidates) = 2
  /\ candidates[2].voteCount = 1

\* C20: a ledger call that reverts leaves voters, candidates, votingOpen and
\* owner as they were, and the same call in the state after it reverts with
\* the same reason.
C20_RevertNoEffect ==
  [][/\ \A s \in Addresses, v \in Addresses :
          (registerVoter(s, v) /\ lastTx'.status # "ok") =>
            /\ UNCHANGED <<voters, candidates, votingOpen, owner>>
            /\ registerVoterStatus(s, v)' = lastTx'.status
     /\ \A s \in Addresses, n \in Names :
          (addCandidate(s, n) /\ lastTx'.status # "ok") =>
            /\ UNCHANGED <<voters, candidates, votingOpen, owner>>
            /\ addCandidateStatus(s, n)' = lastTx'.status
     /\ \A s \in Addresses :
          (openVoting(s) /\ lastTx'.status # "ok") =>
            /\ UNCHANGED <<voters, candidates, votingOpen, owner>>
            /\ openVotingStatus(s)' = lastTx'.status
     /\ \A s \in Addresses :
          (closeVoting(s) /\ lastTx'.status # "ok") =>
            /\ UNCHANGED <<voters, candidates, votingOpen, owner>>
            /\ closeVotingStatus(s)' = lastTx'.status
     /\ \A s \in Addresses :
          (registerSelf(s) /\ lastTx'.status # "ok") =>
            /\ UNCHANGED <<voters, candidates, votingOpen, owner>>
            /\ registerSelfStatus(s)' = lastTx'.status
     /\ \A s \in Addresses, c \in CandidateIds :
          (castVote(s, c) /\ lastTx'.status # "ok") =>
            /\ UNCHANGED <<voters, candidates, votingOpen, owner>>
            /\ castVoteStatus(s, c)' = lastTx'.status]_vars

\* A second vote by an address that had voted has just reverted, with votes
\* and candidates on the ledger.
C20_Witness ==
  /\ lastTx.op = "castVote" /\ lastTx.status = "Already voted"
  /\ \E j \in 1..Len(candidates) : candidates[j].voteCount > 0

\* C21: registerVoter, addCandidate, openVoting and closeVoting sent by any
\* address other than the owner revert with "Only owner" and leave voters,
\* candidates, votingOpen and owner as they were; whenever one of them changes
\* the ledger its sender is the owner; owner is the deployer in every state.
C21_OwnerOnly ==
  /\ [][(TxStep /\ lastTx'.op \in {"registerVoter", "addCandidate",
                                   "openVoting", "closeVoting"}) =>
          /\ lastTx'.sender # Deployer =>
               /\ lastTx'.status = "Only owner"
               /\ UNCHANGED <<owner, voters, candidates, votingOpen>>
          /\ <<owner, voters, candidates, votingOpen>>' #
               <<owner, voters, candidates, votingOpen>> =>
               /\ lastTx'.sender = Deployer
               /\ lastTx'.status = "ok"]_vars
  /\ [](owner = Deployer)

\* With candidates on the ledger and voting closed, an address that is not
\* the owner has sent openVoting and was refused.
C21_Witness ==
  /\ lastTx.op = "openVoting"
  /\ lastTx.sender # owner
  /\ lastTx.status = "Only owner"
  /\ Len(candidates) > 0
  /\ ~votingOpen

\* C22: votingOpen is false after construction and changes only in a
\* successful openVoting (false to true) or a successful closeVoting (true to
\* false); openVoting reverts while voting is open and closeVoting reverts
\* while it is closed, so every successful open starts from closed and every
\* successful close starts from open.
C22_OpenCloseAlternate ==
  /\ [][/\ votingOpen' # votingOpen =>
             /\ lastTx'.status = "ok"
             /\ lastTx'.op = (IF votingOpen THEN "closeVoting" ELSE "openVoting")
        /\ (TxStep /\ lastTx'.op = "openVoting") =>
             IF votingOpen
             THEN lastTx'.status # "ok" /\ votingOpen'
             ELSE lastTx'.status = "ok" => votingOpen'
        /\ (TxStep /\ lastTx'.op = "closeVoting") =>
             IF ~votingOpen
             THEN lastTx'.status # "ok" /\ ~votingOpen'
             ELSE lastTx'.status = "ok" => ~votingOpen']_vars
  /\ [](lastTx.op = "constructor" => ~votingOpen)

\* After voting was opened, used and closed, the owner has sent closeVoting
\* again and was refused.
C22_Witness ==
  /\ lastTx.op = "closeVoting"
  /\ lastTx.sender = owner
  /\ lastTx.status = "Not open"
  /\ \E j \in 1..Len(candidates) : candidates[j].voteCount > 0

\* The address a registration call is about: the argument of registerVoter,
\* the sender of registerSelf.
Registrant(tx) == IF tx.op = "registerVoter" THEN tx.addr ELSE tx.sender

\* Voter records only move forward: isRegistered and hasVoted stay true, and
\* the record of an address that has voted stays as it is.
RecordsMoveForward ==
  \A a \in Addresses :
    /\ voters[a].isRegistered => voters'[a].isRegistered
    /\ voters[a].hasVoted => voters'[a] = voters[a]

\* C23 as stated: registerVoter(a) and registerSelf() for an address already
\* registered or voted revert with "Already registered", and voter records
\* only move forward.
C23_Original ==
  [][/\ (TxStep /\ lastTx'.op \in {"registerVoter", "registerSelf"}
           /\ voters[Registrant(lastTx')].isRegistered)
          => lastTx'.status = "Already registered"
     /\ RecordsMoveForward]_vars

\* C23 amended: registerVoter(a) and registerSelf() for an address already
\* registered or voted revert and change no voter record, with "Already
\* registered" from registerSelf and from the owner's registerVoter and with
\* "Only owner" from any other sender of registerVoter; voter records only
\* move forward.
C23_RecordsForward ==
  [][/\ (TxStep /\ lastTx'.op \in {"registerVoter", "registerSelf"}
           /\ voters[Registrant(lastTx')].isRegistered)
          => /\ lastTx'.status =
                  (IF lastTx'.op = "registerVoter" /\ lastTx'.sender # owner
                   THEN "Only owner" ELSE "Already registered")
             /\ voters' = voters
     /\ RecordsMoveForward]_vars

\* The owner has sent registerVoter for an address that has voted and was
\* refused.
C23_Witness ==
  /\ lastTx.op = "registerVoter"
  /\ lastTx.sender = owner
  /\ voters[lastTx.addr].hasVoted
  /\ lastTx.status = "Already registered"

\* C24: getResults returns one (name, voteCount) pair per candidate in the
\* order the candidates were added: a successful addCandidate(n) appends
\* (n, 0) to it and no other step changes its length; the name at each index
\* never changes and the count at each index never decreases; a step that is
\* not a successful addCandidate or castVote leaves getResults as it was.
C24_AppendOnly ==
  [][/\ Len(getResults') >= Len(getResults)
     /\ \A j \in 1..Len(getResults) :
          /\ getResults'[j][1] = getResults[j][1]
          /\ getResults'[j][2] >= getResults[j][2]
     /\ (TxStep /\ lastTx'.op = "addCandidate" /\ lastTx'.status = "ok")
          => getResults' = Append(getResults, <<lastTx'.name, 0>>)
     /\ ~(lastTx'.op = "addCandidate" /\ lastTx'.status = "ok")
          => Len(getResults') = Len(getResults)
     /\ ~(lastTx'.op \in {"addCandidate", "castVote"} /\ lastTx'.status = "ok")
          => getResults' = getResults]_vars

\* Alice was added first and Bob second, and one vote was cast for Bob.
C24_Witness ==
  getResults = <<(<<"Alice", 0>>), (<<"Bob", 1>>)>>

\* C25: an addCandidate(name) that succeeds when the candidate count is k is
\* sent by the owner with a non-empty name, after it getCandidateCount is
\* k + 1 and getCandidate(k) is (name, 0); every successful castVote(k) adds
\* exactly one to the votes getCandidate(k) returns and no other step changes
\* what getCandidate returns for an existing candidate, so after exactly one
\* successful castVote(k) getCandidate(k) is (name, 1).
C25_AddThenGet ==
  [][/\ (TxStep /\ lastTx'.op = "addCandidate" /\ lastTx'.status = "ok") =>
          \A k \in {getCandidateCount} :
          /\ lastTx'.sender = owner /\ lastTx'.name # ""
          /\ getCandidate(k).status = "Invalid candidate"
          /\ getCandidateCount' = k + 1
          /\ getCandidate(k)' =
               [status |-> "ok", name |-> lastTx'.name, votes |-> 0]
     /\ \A k \in 0..(getCandidateCount - 1) :
          getCandidate(k)' =
            IF TxStep /\ lastTx'.op = "castVote" /\ lastTx'.status = "ok"
                 /\ lastTx'.id = k
            THEN [getCandidate(k) EXCEPT !.votes = @ + 1]
            ELSE getCandidate(k)]_vars

\* Alice was added as candidate 0 and the one vote cast so far went to her.
C25_Witness ==
  /\ getCandidate(0) = [status |-> "ok", name |-> "Alice", votes |-> 1]
  /\ lastTx.op = "castVote" /\ lastTx.status = "ok" /\ lastTx.id = 0
  /\ \A a \in Addresses \ {lastTx.sender} : ~voters[a].hasVoted

(***************************************************************************)
(* Claims about the responses of the account routes, checked under         *)
(* SpecMail.                                                               *)
(***************************************************************************)
\* The body the last issuing request would have answered with had the mail
\* been delivered.
BodyWhenDelivered ==
  IF lastReq.route = "POST /auth/register"
  THEN RegisterBody(lastOtp.email, sendOTP("sent"))
  ELSE LoginBody(lastOtp.email, sendOTP("sent"))

\* C26 as stated: when the mail of a passcode issued by POST /register or
\* POST /login fails, the response differs from the one given when the mail
\* is delivered, and the stored passcode still verifies.
C26_Original ==
  (/\ lastMail = "failed"
   /\ lastReq.route \in {"POST /auth/register", "POST /auth/login"}) =>
    /\ lastBody # BodyWhenDelivered
    /\ FindOneMatches(lastOtp.email, lastOtp.code, lastOtp.type) # {}

\* C27: POST /forgot-password answers 200 with a body that depends on the
\* email string only: the same for an email with an active account and for
\* one without, and whatever became of the mail.
C27_ForgotSameResponse ==
  [][\A e \in Emails, c \in StoreCodes, m \in MailOutcomes :
       PostForgotPassword(e, c, m) =>
         /\ lastReq' = Req("POST /auth/forgot-password", 200)
         /\ \A otpSent \in BOOLEAN : lastBody' = ForgotPasswordBody(e, otpSent)
         /\ lastBody' = Body(TRUE, lastBody'.message, maskEmail(e), Undefined)
         /\ \A e2 \in Emails :
              lastBody'.message = ForgotPasswordBody(e2, FALSE).message]_vars

\* POST /forgot-password has answered for an email that has an active account
\* and the mail of the passcode it stored has failed.
C27_Witness ==
  /\ lastReq.route = "POST /auth/forgot-password"
  /\ lastMail = "failed"
  /\ lastOtp.type = "password_reset"
  /\ findActiveByEmail(lastOtp.email) # {}
  /\ FindOneMatches(lastOtp.email, lastOtp.code, "password_reset") # {}

\* The rows of a table that a verifyOTP(email, code, type) made at time t
\* matches: same lowercased email, code and type, unused, expiring after t.
VerifiableAt(rows, email, code, type, t) ==
  {rows[i] : i \in {j \in 1..Len(rows) :
     /\ rows[j].email = toLowerCase(email) /\ rows[j].code = code
     /\ rows[j].type = type /\ ~rows[j].isUsed /\ rows[j].expiresAt > t}}

\* C28: cleanupExpired removes exactly the rows whose expiresAt is before now,
\* keeps every other row in place and returns the number removed; a second
\* run right after it removes nothing; and for every email, code, type and
\* every time from now on, the rows a verifyOTP would match are the same
\* after the sweep as before it.
C28_SweepExact ==
  [][(lastOtp'.op = "cleanupExpired" /\ cleanupExpired) =>
       /\ otps' = SelectSeq(otps, LAMBDA row : row.expiresAt >= now)
       /\ lastOtp'.deleted =
            Cardinality({i \in 1..Len(otps) : otps[i].expiresAt < now})
       /\ now' = now
       /\ \A i \in 1..Len(otps') : ~(otps'[i].expiresAt < now')
       /\ \A e \in Emails, c \in Codes, t \in OtpTypes :
            /\ \A time \in now..(MaxTime + OTP_EXPIRY_MINUTES) :
                 VerifiableAt(otps', e, c, t, time) =
                   VerifiableAt(otps, e, c, t, time)
            /\ {otps'[i] : i \in FindOneMatches(e, c, t)'} =
                 {otps[i] : i \in FindOneMatches(e, c, t)}]_vars

\* A sweep has just removed an expired row and kept a row that is still
\* verifiable.
C28_Witness ==
  /\ lastOtp.op = "cleanupExpired"
  /\ lastOtp.deleted > 0
  /\ \E i \in 1..Len(otps) : ~otps[i].isUsed /\ otps[i].expiresAt > now

\* C29: a POST /verify-email, /verify-login or /reset-password whose
\* verifyOTP returns valid = false answers 400 and changes nothing: no
\* account's isVerified, password or lastLogin, no stored passcode and no
\* issued token; verifyOTP returns valid = false only when no stored row
\* matches, so after any number of failed attempts every code that had a
\* matching row still has the same ones.
C29_FailedVerifyNoEffect ==
  [][\A e \in StoreEmails, c \in Codes :
       ((\/ AuthVerifyEmail(e, c)
         \/ AuthVerifyLogin(e, c)
         \/ \E pw \in Passwords : AuthResetPassword(e, c, pw))
        /\ ~lastOtp'.valid) =>
         /\ lastReq'.status = 400
         /\ users' = users
         /\ otps' = otps
         /\ tokens' = tokens
         /\ loginLog' = loginLog
         /\ VerifiableAt(otps, e, c, lastOtp'.type, now) = {}
         /\ \A e2 \in StoreEmails, c2 \in Codes, t \in OtpTypeEnum :
              VerifiableAt(otps', e2, c2, t, now') =
                VerifiableAt(otps, e2, c2, t, now)]_vars

\* A wrong code has just been refused at POST /verify-email while the
\* account's registration passcode is outstanding.
C29_Witness ==
  /\ lastReq = Req("POST /auth/verify-email", 400)
  /\ lastOtp.op = "verifyOTP" /\ ~lastOtp.valid
  /\ \E i \in findByEmail(lastOtp.email) : ~users[i].isVerified
  /\ \E c \in Codes \ {lastOtp.code} :
       VerifiableAt(otps, lastOtp.email, c, "registration", now) # {}

\* C30 as stated: in every reachable state every wallet address stored on an
\* account is a well-formed address in lowercase.
C30_Original ==
  \A i \in UserIds :
    Truthy(users[i].walletAddress) =>
      /\ MatchesAddressRegex(users[i].walletAddress)
      /\ users[i].walletAddress = toLowerCase(users[i].walletAddress)

\* C31: in every state with at least one candidate, openVoting sent by the
\* owner succeeds exactly when voting is closed and closeVoting sent by the
\* owner succeeds exactly when voting is open, so exactly one of the two
\* succeeds and the state it leads to, which has the same candidates, allows
\* the other.
C31_NeverTerminal ==
  Len(candidates) > 0 =>
    /\ (openVotingStatus(owner) = "ok") <=> ~votingOpen
    /\ (closeVotingStatus(owner) = "ok") <=> votingOpen
    /\ (openVotingStatus(owner) = "ok") # (closeVotingStatus(owner) = "ok")

\* Voting has just been opened again after votes were cast in an earlier
\* window.
C31_Witness ==
  /\ lastTx.op = "openVoting" /\ lastTx.status = "ok"
  /\ votingOpen
  /\ \A a \in Addresses : voters[a].isRegistered => voters[a].hasVoted
  /\ \E a \in Addresses : voters[a].hasVoted

\* C32: a castVote that reverts reports the first violated check in the order
\* "Not registered", "Voting is closed", "Invalid candidate", "Already
\* voted", and a castVote with no violated check succeeds.
C32_RevertReasonOrder ==
  [][(TxStep /\ lastTx'.op = "castVote") =>
       lastTx'.status =
         (IF ~voters[lastTx'.sender].isRegistered THEN "Not registered"
          ELSE IF ~votingOpen THEN "Voting is closed"
          ELSE IF lastTx'.id >= Len(candidates) THEN "Invalid candidate"
          ELSE IF voters[lastTx'.sender].hasVoted THEN "Already voted"
          ELSE "ok")]_vars

\* An address that has voted has sent castVote for an index that is no
\* candidate while voting is closed: three checks fail and the first of them
\* is reported.
C32_Witness ==
  /\ lastTx.op = "castVote"
  /\ voters[lastTx.sender].isRegistered
  /\ voters[lastTx.sender].hasVoted
  /\ ~votingOpen
  /\ lastTx.id >= Len(candidates)
  /\ lastTx.status = "Voting is closed"

\* The total of the vote counts of the first n candidates.
RECURSIVE TotalVotes(_)
TotalVotes(n) ==
  IF n = 0 THEN 0 ELSE candidates[n].voteCount + TotalVotes(n - 1)

\* C33: in every state each candidate's voteCount equals the number of
\* addresses whose record holds a vote for it, every recorded
\* votedCandidateId of an address that has voted is a candidate index, and
\* the vote counts add up to the number of addresses that have voted.
C33_TallyMatchesRecords ==
  /\ \A j \in 1..Len(candidates) :
       candidates[j].voteCount = VotesHeldFor(j - 1)
  /\ \A a \in Addresses :
       voters[a].hasVoted => voters[a].votedCandidateId < Len(candidates)
  /\ TotalVotes(Len(candidates)) =
       Cardinality({a \in Addresses : voters[a].hasVoted})

\* Two addresses have voted, for different candidates.
C33_Witness ==
  \E a, b \in Addresses :
    /\ voters[a].hasVoted /\ voters[b].hasVoted
    /\ voters[a].votedCandidateId # voters[b].votedCandidateId

\* C34: in every state, votingOpen implies that a candidate exists.
C34_OpenHasCandidate ==
  votingOpen => Len(candidates) > 0

\* Voting has just been opened with a single candidate on the ledger.
C34_Witness ==
  /\ votingOpen
  /\ Len(candidates) = 1
  /\ lastTx.op = "openVoting" /\ lastTx.status = "ok"

\* C35: registerSelf from an unregistered address and registerVoter sent by
\* the owner for an unregistered address succeed whether voting is open or
\* closed; when voting is open, the address just registered can cast a vote
\* for any candidate in the state the registration leaves.
C35_RegisterAnytime ==
  [][(TxStep /\ lastTx'.op \in {"registerVoter", "registerSelf"}
        /\ ~voters[Registrant(lastTx')].isRegistered
        /\ (lastTx'.op = "registerVoter" => lastTx'.sender = owner)) =>
       /\ lastTx'.status = "ok"
       /\ voters'[Registrant(lastTx')].isRegistered
       /\ votingOpen' = votingOpen
       /\ votingOpen =>
            \A a \in {Registrant(lastTx')}, c \in 0..(Len(candidates) - 1) :
              castVoteStatus(a, c)' = "ok"]_vars

\* While voting is open the owner has just registered another address, which
\* has not voted yet.
C35_Witness ==
  /\ lastTx.op = "registerVoter" /\ lastTx.status = "ok"
  /\ lastTx.addr # owner
  /\ votingOpen
  /\ voters[lastTx.addr].isRegistered /\ ~voters[lastTx.addr].hasVoted

\* C36: POST /wallet/register by an active identity that holds a well-formed
\* address A, for a valid address B other than A that no other identity
\* holds, succeeds with no unregister before it: the identity's stored address
\* becomes B in lowercase, verifying the identity against A then answers
\* isMatching = false, and when no other identity holds A every other identity
\* may register A.
C36_RebindReplaces ==
  [][\A u \in 1..MaxUsers, w \in WalletStrings :
       (/\ WalletRegister(u, w)
        /\ authenticateToken(u)
        /\ isValidWalletAddress(w)
        /\ MatchesAddressRegex(users[u].walletAddress)
        /\ toLowerCase(users[u].walletAddress) # toLowerCase(w)
        /\ OtherHolders(u, w) = {}) =>
         /\ lastReq' = RegisterReq(TRUE)
         /\ users'[u].walletAddress = toLowerCase(w)
         /\ \A a \in {users[u].walletAddress} :
              /\ ~(verifyUserWallet(u, toLowerCase(a)))'.isMatching
              /\ OtherHolders(u, a) = {} =>
                   \A y \in UserIds \ {u} :
                     (registerUserWalletStatus(y, toLowerCase(a)))' = "ok"]_vars

\* Two identities exist; one of them has just moved from one address to
\* another with a single POST /wallet/register.
C36_Witness ==
  /\ lastReq = RegisterReq(TRUE)
  /\ Len(users) = 2
  /\ \E u \in UserIds :
       /\ users[u].walletAddress = "0xabc2"
       /\ users[3 - u].walletAddress = NULL
       /\ users[3 - u].isVerified

\* C37: while a deactivated account holds a well-formed address A, no request
\* changes the account's address or reactivates it, the account does not pass
\* authenticateToken, and no POST /wallet/register by another identity for A,
\* however A is spelled, stores anything: sent by an active identity with a
\* valid spelling of A it is answered 409.
C37_DeactivatedKeepsAddress ==
  [][\A i \in UserIds :
       (~users[i].isActive /\ MatchesAddressRegex(users[i].walletAddress)) =>
         /\ users'[i].walletAddress = users[i].walletAddress
         /\ ~users'[i].isActive
         /\ ~authenticateToken(i)
         /\ \A y \in UserIds \ {i}, w \in WalletStrings :
              (WalletRegister(y, w) /\ ColumnEquals(users[i].walletAddress, w)) =>
                /\ users' = users
                /\ (authenticateToken(y) /\ isValidWalletAddress(w)) =>
                     lastReq' = Req("POST /wallet/register", 409)]_vars

\* An active identity without an address has just been refused the address
\* that a deactivated account holds.
C37_Witness ==
  /\ lastReq = Req("POST /wallet/register", 409)
  /\ \E i, y \in UserIds :
       /\ ~users[i].isActive
       /\ users[i].walletAddress = "0xabc1"
       /\ users[y].isActive
       /\ users[y].walletAddress = NULL

\* The (email, type) pair a row of otp_codes belongs to.
RowKey(row) == PairKey(row.email, row.type)

\* C38: createOTP and verifyOTP for an email and a type leave the rows and the
\* issue records of every other (email, type) pair as they were and change or
\* add rows of their own pair only; a verifyOTP that is accepted consumes a
\* row of its own pair; issuing for a pair does not change which rows a verify
\* for another pair would find, while the new passcode is found under every
\* spelling of the email that differs in letter case only.
C38_PairsIsolated ==
  [][\A e \in Emails, t \in OtpTypes, c \in Codes :
       (createOTP(e, t, c) \/ verifyOTP(e, c, t)) =>
         /\ \A i \in 1..Len(otps) :
              RowKey(otps[i]) # PairKey(e, t) => otps'[i] = otps[i]
         /\ \A i \in 1..Len(otps') :
              (i > Len(otps) \/ otps'[i] # otps[i]) =>
                RowKey(otps'[i]) = PairKey(e, t)
         /\ \A k \in Pairs \ {PairKey(e, t)} : issued'[k] = issued[k]
         /\ (lastOtp'.op = "verifyOTP" /\ lastOtp'.valid) =>
              \E i \in 1..Len(otps) :
                /\ RowKey(otps[i]) = PairKey(e, t)
                /\ otps[i].code = c
                /\ ~otps[i].isUsed /\ otps'[i].isUsed
         /\ \A e2 \in Emails, t2 \in OtpTypes, c2 \in Codes :
              /\ PairKey(e2, t2) # PairKey(e, t) =>
                   (FindOneMatches(e2, c2, t2))' = FindOneMatches(e2, c2, t2)
              /\ (lastOtp'.op = "createOTP" /\ PairKey(e2, t2) = PairKey(e, t)
                    /\ c2 = c) =>
                   (FindOneMatches(e2, c2, t2))' # {}]_vars

\* A verifyOTP called with "U@x.com" has just consumed the login passcode
\* stored under "u@x.com", while a passcode with the same code issued to
\* another identity for the same type is still outstanding.
C38_Witness ==
  /\ lastOtp.op = "verifyOTP" /\ lastOtp.valid
  /\ lastOtp.email = "U@x.com" /\ lastOtp.type = "login"
  /\ \E i, j \in 1..Len(otps) :
       /\ otps[i].email = "u@x.com" /\ otps[i].type = "login"
       /\ otps[i].code = lastOtp.code /\ otps[i].isUsed
       /\ otps[j].email = "v@x.com" /\ otps[j].type = "login"
       /\ otps[j].code = lastOtp.code /\ Outstanding(otps[j], "v@x.com", "login")

\* The connected account is the address stored on the logged-in account, up to
\* letter case.
ConnectedIsBound ==
  /\ isAuthenticated
  /\ account # ""
  /\ Truthy(users[sessionUser].walletAddress)
  /\ toLowerCase(account) = toLowerCase(users[sessionUser].walletAddress)

\* C39 as stated: a validateWallet call by a logged-in identity leaves
\* isValid = true exactly when the connected account equals, up to letter
\* case, the address bound to the identity, and then does not log the user
\* out.
C39_Original ==
  [][\A f \in BOOLEAN :
       (validateWallet(f) /\ isAuthenticated) =>
         /\ validation'.isValid <=> ConnectedIsBound
         /\ validation'.returned.isValid <=> ConnectedIsBound
         /\ ConnectedIsBound => sessionUser' = sessionUser]_vars

\* C40 as stated: a request that is answered 401 leads to at most one token
\* refresh and is sent again at most once before it settles, whatever the
\* server answers, a 401 to the refresh request included.
C40_Original ==
  /\ api.refreshes <= 1
  /\ api.retries <= 1

====
